---- MODULE Spec2Model ----
(***************************************************************************)
(* Batch scraping / detection pipeline of sales-scraper.                   *)
(*                                                                         *)
(* Two route variants are modelled:                                        *)
(*   - src/app/api/scrape/route.ts : windowed-concurrent orchestration     *)
(*     (processInParallel), direct fetch or Firecrawl render provider;     *)
(*   - src/unnamed/part_000        : strictly sequential orchestration,    *)
(*     direct fetch only.                                                  *)
(*                                                                         *)
(* JavaScript strings that the code inspects (startsWith, includes, slice, *)
(* RegExp.test) are sequences of one-character strings.  Vendor names,     *)
(* event types and statuses are only compared for equality and stay TLA+   *)
(* strings.                                                                *)
(***************************************************************************)
EXTENDS Integers, Sequences, FiniteSets, TLC

\* Largest request the model explores (the route accepts up to 30 domains).
MaxDomains == 6

\* route.ts:9
CONCURRENT_LIMIT == 5

-----------------------------------------------------------------------------
\* String primitives

Min(a, b) == IF a < b THEN a ELSE b

\* String.prototype.startsWith
startsWith(s, p) ==
    /\ Len(s) >= Len(p)
    /\ SubSeq(s, 1, Len(p)) = p

\* String.prototype.includes
includes(s, p) ==
    \E o \in 0..(Len(s) - Len(p)) : SubSeq(s, o + 1, o + Len(p)) = p

\* String.prototype.slice(0, end)
slice(s, end) == SubSeq(s, 1, Min(Len(s), end))

UpperCase == <<"A","B","C","D","E","F","G","H","I","J","K","L","M",
               "N","O","P","Q","R","S","T","U","V","W","X","Y","Z">>
LowerCase == <<"a","b","c","d","e","f","g","h","i","j","k","l","m",
               "n","o","p","q","r","s","t","u","v","w","x","y","z">>

LowerChar(c) ==
    IF \E u \in 1..Len(UpperCase) : UpperCase[u] = c
    THEN LowerCase[CHOOSE u \in 1..Len(UpperCase) : UpperCase[u] = c]
    ELSE c

\* String.prototype.toLowerCase
toLowerCase(s) == [j \in 1..Len(s) |-> LowerChar(s[j])]

\* RegExp.prototype.test for the registry's patterns: every pattern is a
\* literal (its dots and parentheses are escaped) carrying the i flag.
RegExpTest(pattern, text) == includes(toLowerCase(text), toLowerCase(pattern))

Digits == <<"0","1","2","3","4","5","6","7","8","9">>

\* Number-to-string conversion of a template literal (`${response.status}`).
RECURSIVE ToDecimal(_)
ToDecimal(n) ==
    IF n < 10 THEN <<Digits[n + 1]>>
    ELSE Append(ToDecimal(n \div 10), Digits[(n % 10) + 1])

\* Array.prototype.includes on an array of vendor names
Contains(arr, x) == \E j \in 1..Len(arr) : arr[j] = x

-----------------------------------------------------------------------------
\* Pattern registry of route.ts (declaration order is Object.entries order)

PAYMENT_PATTERNS == <<
    [name |-> "Stripe",
     patterns |-> <<<<"s","t","r","i","p","e",".","c","o","m">>, <<"j","s",".","s","t","r","i","p","e",".","c","o","m">>, <<"c","h","e","c","k","o","u","t",".","s","t","r","i","p","e",".","c","o","m">>, <<"S","t","r","i","p","e","(">>>>],
    [name |-> "PayPal",
     patterns |-> <<<<"p","a","y","p","a","l",".","c","o","m">>, <<"p","a","y","p","a","l","o","b","j","e","c","t","s",".","c","o","m">>, <<"p","a","y","p","a","l",".","m","e">>>>],
    [name |-> "Square",
     patterns |-> <<<<"s","q","u","a","r","e",".","c","o","m">>, <<"s","q","u","a","r","e","u","p",".","c","o","m">>, <<"s","q","u","a","r","e","c","d","n",".","c","o","m">>>>],
    [name |-> "Braintree",
     patterns |-> <<<<"b","r","a","i","n","t","r","e","e">>, <<"b","r","a","i","n","t","r","e","e","g","a","t","e","w","a","y",".","c","o","m">>>>],
    [name |-> "Adyen",
     patterns |-> <<<<"a","d","y","e","n",".","c","o","m">>, <<"a","d","y","e","n","c","h","e","c","k","o","u","t">>>>],
    [name |-> "Authorize.net",
     patterns |-> <<<<"a","u","t","h","o","r","i","z","e",".","n","e","t">>, <<"a","u","t","h","o","r","i","z","e","n","e","t">>>>],
    [name |-> "Shopify Payments",
     patterns |-> <<<<"c","d","n",".","s","h","o","p","i","f","y",".","c","o","m">>, <<"c","h","e","c","k","o","u","t",".","s","h","o","p","i","f","y",".","c","o","m">>, <<"s","h","o","p","i","f","y">>>>],
    [name |-> "WooCommerce",
     patterns |-> <<<<"w","o","o","c","o","m","m","e","r","c","e">>, <<"w","c","-","a","j","a","x">>>>] >>

PSA_PATTERNS == <<
    [name |-> "ConnectWise", patterns |-> <<<<"c","o","n","n","e","c","t","w","i","s","e">>, <<"s","c","r","e","e","n","c","o","n","n","e","c","t">>>>],
    [name |-> "Autotask",    patterns |-> <<<<"a","u","t","o","t","a","s","k">>>>],
    [name |-> "Syncro",      patterns |-> <<<<"s","y","n","c","r","o","m","s","p">>, <<"s","y","n","c","r","o">>>>],
    [name |-> "Datto",       patterns |-> <<<<"d","a","t","t","o",".","c","o","m">>, <<"d","a","t","t","o">>>>],
    [name |-> "Kaseya",      patterns |-> <<<<"k","a","s","e","y","a">>>>],
    [name |-> "NinjaRMM",    patterns |-> <<<<"n","i","n","j","a","r","m","m">>, <<"n","i","n","j","a","o","n","e">>>>],
    [name |-> "Freshservice",
     patterns |-> <<<<"f","r","e","s","h","s","e","r","v","i","c","e">>, <<"f","r","e","s","h","w","o","r","k","s">>, <<"f","r","e","s","h","d","e","s","k">>>>],
    [name |-> "Zendesk",     patterns |-> <<<<"z","e","n","d","e","s","k">>, <<"z","d","a","s","s","e","t","s",".","c","o","m">>>>],
    [name |-> "ServiceNow",  patterns |-> <<<<"s","e","r","v","i","c","e","n","o","w">>, <<"s","e","r","v","i","c","e","-","n","o","w">>>>],
    [name |-> "HaloPSA",     patterns |-> <<<<"h","a","l","o","p","s","a">>, <<"h","a","l","o","i","t","s","m">>>>],
    [name |-> "Atera",       patterns |-> <<<<"a","t","e","r","a">>>>] >>

\* Pattern registry of the sequential variant
PAYMENT_PATTERNS_SEQ == <<
    [name |-> "Stripe",
     patterns |-> <<<<"s","t","r","i","p","e",".","c","o","m">>, <<"j","s",".","s","t","r","i","p","e",".","c","o","m">>, <<"c","h","e","c","k","o","u","t",".","s","t","r","i","p","e",".","c","o","m">>>>],
    [name |-> "PayPal",    patterns |-> <<<<"p","a","y","p","a","l",".","c","o","m">>, <<"p","a","y","p","a","l","o","b","j","e","c","t","s",".","c","o","m">>>>],
    [name |-> "Square",    patterns |-> <<<<"s","q","u","a","r","e",".","c","o","m">>, <<"s","q","u","a","r","e","u","p",".","c","o","m">>>>],
    [name |-> "Braintree", patterns |-> <<<<"b","r","a","i","n","t","r","e","e">>, <<"b","r","a","i","n","t","r","e","e","g","a","t","e","w","a","y">>>>] >>

PSA_PATTERNS_SEQ == <<
    [name |-> "ConnectWise", patterns |-> <<<<"c","o","n","n","e","c","t","w","i","s","e">>, <<"s","c","r","e","e","n","c","o","n","n","e","c","t">>>>],
    [name |-> "Autotask",    patterns |-> <<<<"a","u","t","o","t","a","s","k">>>>],
    [name |-> "Syncro",      patterns |-> <<<<"s","y","n","c","r","o","m","s","p">>, <<"s","y","n","c","r","o">>>>],
    [name |-> "Datto",       patterns |-> <<<<"d","a","t","t","o",".","c","o","m">>>>],
    [name |-> "Kaseya",      patterns |-> <<<<"k","a","s","e","y","a">>>>],
    [name |-> "Freshservice", patterns |-> <<<<"f","r","e","s","h","s","e","r","v","i","c","e">>, <<"f","r","e","s","h","w","o","r","k","s">>>>],
    [name |-> "Zendesk",     patterns |-> <<<<"z","e","n","d","e","s","k">>>>] >>

-----------------------------------------------------------------------------
\* Content classifier

\* Variant: only the vendor's first pattern is tried
firstMatch_firstOnly(patterns, text, j) ==
    IF j <= Len(patterns) /\ RegExpTest(patterns[j], text) THEN j ELSE 0

\* Inner loop of route.ts detectPortals: index of the first pattern of the
\* vendor that matches (the loop breaks there), 0 when none does.
RECURSIVE firstMatch(_, _, _)
firstMatch(patterns, text, j) ==
    IF j > Len(patterns) THEN 0
    ELSE IF RegExpTest(patterns[j], text) THEN j
    ELSE firstMatch(patterns, text, j + 1)

\* Variant: no break and no includes check, the name is pushed once for
\* each pattern of the vendor that matches
RECURSIVE matchVendors_perPattern(_, _, _, _)
matchVendors_perPattern(registry, text, v, acc) ==
    IF v > Len(registry) THEN acc
    ELSE LET config == registry[v]
             hits   == SelectSeq(config.patterns, LAMBDA p : RegExpTest(p, text))
         IN  matchVendors_perPattern(registry, text, v + 1,
                 acc \o [j \in 1..Len(hits) |-> config.name])

\* Outer loop of route.ts detectPortals over one registry.
RECURSIVE matchVendors(_, _, _, _)
matchVendors(registry, text, v, acc) ==
    IF v > Len(registry) THEN acc
    ELSE LET config == registry[v]
             hit    == firstMatch(config.patterns, text, 1) # 0
         IN  matchVendors(registry, text, v + 1,
                 IF hit /\ ~Contains(acc, config.name)
                 THEN Append(acc, config.name)
                 ELSE acc)

\* route.ts detectPortals
detectPortals(content) ==
    LET lowerContent == toLowerCase(content)
    IN  [paymentPortals |-> matchVendors(PAYMENT_PATTERNS, lowerContent, 1, <<>>),
         psaPortals     |-> matchVendors(PSA_PATTERNS, lowerContent, 1, <<>>)]

\* Variant: patterns.every(...) in place of patterns.some(...)
RECURSIVE someVendors_every(_, _, _, _)
someVendors_every(registry, html, v, acc) ==
    IF v > Len(registry) THEN acc
    ELSE LET config == registry[v]
         IN  someVendors_every(registry, html, v + 1,
                 IF \A j \in 1..Len(config.patterns) : RegExpTest(config.patterns[j], html)
                 THEN Append(acc, config.name)
                 ELSE acc)

\* Variant: the name is put at the front of the list (unshift)
RECURSIVE someVendors_unshift(_, _, _, _)
someVendors_unshift(registry, html, v, acc) ==
    IF v > Len(registry) THEN acc
    ELSE LET config == registry[v]
         IN  someVendors_unshift(registry, html, v + 1,
                 IF \E j \in 1..Len(config.patterns) : RegExpTest(config.patterns[j], html)
                 THEN <<config.name>> \o acc
                 ELSE acc)

\* Loop of the sequential variant's detectPortals: patterns.some(...) then push.
RECURSIVE someVendors(_, _, _, _)
someVendors(registry, html, v, acc) ==
    IF v > Len(registry) THEN acc
    ELSE LET config == registry[v]
         IN  someVendors(registry, html, v + 1,
                 IF \E j \in 1..Len(config.patterns) : RegExpTest(config.patterns[j], html)
                 THEN Append(acc, config.name)
                 ELSE acc)

\* part_000 detectPortals
detectPortalsSeq(html) ==
    [paymentPortals |-> someVendors(PAYMENT_PATTERNS_SEQ, html, 1, <<>>),
     psaPortals     |-> someVendors(PSA_PATTERNS_SEQ, html, 1, <<>>)]

-----------------------------------------------------------------------------
\* What the network, the target sites and the render provider can answer

\* HTTP statuses a site answers with; response.ok is status in 200..299
Statuses == {200, 404}

\* Variant: redirect statuses count as success
ok_redirects(status) == status >= 200 /\ status <= 399

ok(status) == status >= 200 /\ status <= 299

\* Page bodies
Contents == { <<"s","r","c","=","j","s",".","s","t","r","i","p","e",".","c","o","m","/","v","3">> }

\* JavaScript values a rejected promise can carry
AbortError ==
    [isError |-> TRUE, name |-> "AbortError", message |-> <<"T","h","i","s"," ","o","p","e","r","a","t","i","o","n"," ","w","a","s"," ","a","b","o","r","t","e","d">>]
ResetFailure ==
    [isError |-> TRUE, name |-> "Error", message |-> <<"r","e","a","d"," ","E","C","O","N","N","R","E","S","E","T">>]
ProviderFailure ==
    [isError |-> TRUE, name |-> "Error", message |-> <<"R","e","q","u","e","s","t"," ","f","a","i","l","e","d"," ","w","i","t","h"," ","s","t","a","t","u","s"," ","c","o","d","e"," ","4","0","2">>]

\* Rejections of fetch() and of response.text() other than the abort
TransportErrors == { ResetFailure }

\* Results and rejections of firecrawl.scrape()
FirecrawlResults == { [hasHtml |-> TRUE, html |-> c] : c \in Contents }
FirecrawlErrors == { ProviderFailure }

\* A wider world for following single calls: every kind of answer a site,
\* the network or the render provider can give to one call

AllStatuses == {200, 204, 304, 404, 500}

AllContents ==
    Contents \cup
    { <<>>,
      <<"S","R","C","=","J","S",".","S","T","R","I","P","E",".","C","O","M","/","V","3">>,
      <<"c","h","e","c","k","o","u","t",".","s","t","r","i","p","e",".","c","o","m"," ","j","s",".","s","t","r","i","p","e",".","c","o","m"," ","S","t","r","i","p","e","(">>,
      <<"z","e","n","d","e","s","k"," ","p","a","y","p","a","l",".","c","o","m"," ","s","t","r","i","p","e",".","c","o","m">>,
      <<"s","c","r","e","e","n","c","o","n","n","e","c","t"," ","c","o","n","n","e","c","t","w","i","s","e"," ","a","u","t","o","t","a","s","k">>,
      <<"d","a","t","t","o"," ","r","m","m"," ","s","q","u","a","r","e","u","p",".","c","o","m">>,
      <<"h","e","l","l","o"," ","w","o","r","l","d">> }

DnsFailure ==
    [isError |-> TRUE, name |-> "Error",
     message |-> <<"r","e","q","u","e","s","t"," ","t","o"," ","h","t","t","p","s",":","/","/","a",".","c","o","/"," ","f","a","i","l","e","d",","," ","r","e","a","s","o","n",":"," ","g","e","t","a","d","d","r","i","n","f","o"," ","E","N","O","T","F","O","U","N","D"," ","a",".","c","o">>]
RefusedFailure ==
    [isError |-> TRUE, name |-> "Error", message |-> <<"c","o","n","n","e","c","t"," ","E","C","O","N","N","R","E","F","U","S","E","D"," ","1","2","7",".","0",".","0",".","1",":","4","4","3">>]
CertFailure ==
    [isError |-> TRUE, name |-> "Error", message |-> <<"c","e","r","t","i","f","i","c","a","t","e"," ","h","a","s"," ","e","x","p","i","r","e","d"," ","(","C","E","R","T","_","H","A","S","_","E","X","P","I","R","E","D",")">>]
SslFailure ==
    [isError |-> TRUE, name |-> "Error", message |-> <<"w","r","i","t","e"," ","E","P","R","O","T","O"," ","S","S","L"," ","r","o","u","t","i","n","e","s",":","w","r","o","n","g"," ","v","e","r","s","i","o","n"," ","n","u","m","b","e","r">>]
ResetByPeer ==
    [isError |-> TRUE, name |-> "Error", message |-> <<"s","o","c","k","e","t"," ","h","a","n","g"," ","u","p"," ","(","E","C","O","N","N","R","E","S","E","T",")">>]
FetchFailed ==
    [isError |-> TRUE, name |-> "TypeError", message |-> <<"f","e","t","c","h"," ","f","a","i","l","e","d">>]
ThrownValue == [isError |-> FALSE]
ProviderLongFailure ==
    [isError |-> TRUE, name |-> "Error",
     message |-> <<"U","n","e","x","p","e","c","t","e","d"," ","e","r","r","o","r"," ","o","c","c","u","r","r","e","d"," ","w","h","i","l","e"," ","t","r","y","i","n","g"," ","t","o"," ","s","c","r","a","p","e"," ","U","R","L","."," ","S","t","a","t","u","s"," ","c","o","d","e",":"," ","5","0","0">>]

AllTransportErrors ==
    TransportErrors \cup
    { DnsFailure, RefusedFailure, CertFailure, SslFailure, ResetByPeer, FetchFailed,
      ThrownValue }

AllFirecrawlResults ==
    { [hasHtml |-> TRUE, html |-> c] : c \in AllContents } \cup { [hasHtml |-> FALSE] }
AllFirecrawlErrors == FirecrawlErrors \cup { ProviderLongFailure, ThrownValue }

\* Domain strings a caller sends
DomainNames == << <<"a",".","c","o">>, <<"h","t","t","p",":","/","/","b",".","c","o">>, <<"h","t","t","p","b","i","n",".","o","r","g">> >>

\* The request of n domains: the names in rotation, so that from four
\* domains on the same string occurs at several positions.
RequestOf(n) == [k \in 1..n |-> DomainNames[((k - 1) % Len(DomainNames)) + 1]]

Requests == { RequestOf(n) : n \in 1..MaxDomains }

\* Requests for following single calls: one domain, or the same domain twice
AllDomainNames ==
    { DomainNames[n] : n \in 1..Len(DomainNames) } \cup { <<"h","t","t","p","s",":","/","/","c",".","c","o">>, <<"h","t","t","p","d",".","i","o">> }
CallRequests == { <<d>> : d \in AllDomainNames } \cup { <<d, d>> : d \in AllDomainNames }

-----------------------------------------------------------------------------
\* Per-domain calls.  A call is an async function: the operators below give
\* the settlement of its promise for the network event that ends it:
\*   [kind |-> "response", status |-> s]   fetch() resolved, !response.ok
\*   [kind |-> "text", html |-> c]         response.text() resolved
\*   [kind |-> "scraped", result |-> r]    firecrawl.scrape() resolved
\*   [kind |-> "reject", error |-> e]      the awaited promise rejected

Fulfilled(v) == [state |-> "fulfilled", value |-> v]
Rejected(e)  == [state |-> "rejected", reason |-> e]

\* const url = domain.startsWith('http') ? domain : `https://${domain}`
resolveUrl(domain) ==
    IF startsWith(domain, <<"h","t","t","p">>) THEN domain ELSE <<"h","t","t","p","s",":","/","/">> \o domain

\* detectPortals over the page bodies the model draws, evaluated once
Detection == [c \in AllContents |-> detectPortals(c)]
DetectionSeq == [c \in AllContents |-> detectPortalsSeq(c)]

\* catch block of route.ts scrapeWithFetch
fetchErrorMessage(error) ==
    IF error.isError
    THEN IF error.name = "AbortError" THEN <<"T","i","m","e","o","u","t">>
         ELSE IF includes(error.message, <<"E","N","O","T","F","O","U","N","D">>) THEN <<"D","N","S"," ","e","r","r","o","r">>
         ELSE IF includes(error.message, <<"E","C","O","N","N","R","E","F","U","S","E","D">>) THEN <<"C","o","n","n","e","c","t","i","o","n"," ","r","e","f","u","s","e","d">>
         ELSE IF includes(error.message, <<"C","E","R","T">>) \/ includes(error.message, <<"S","S","L">>)
              THEN <<"S","S","L"," ","e","r","r","o","r">>
         ELSE slice(error.message, 50)
    ELSE <<"U","n","k","n","o","w","n"," ","e","r","r","o","r">>

errorOutcome(domain, index, message) ==
    [domain |-> domain, index |-> index, status |-> "error", error |-> message,
     paymentPortals |-> <<>>, psaPortals |-> <<>>]

\* Variant: the done outcome carries an (empty) error field as well
doneOutcome_withError(domain, index, detection) ==
    [domain |-> domain, index |-> index, status |-> "done", error |-> <<>>,
     paymentPortals |-> detection.paymentPortals,
     psaPortals |-> detection.psaPortals]

doneOutcome(domain, index, detection) ==
    [domain |-> domain, index |-> index, status |-> "done",
     paymentPortals |-> detection.paymentPortals,
     psaPortals |-> detection.psaPortals]

\* Variant: the try block has no catch, a rejection escapes the call
scrapeWithFetch_noCatch(domain, index, ev) ==
    CASE ev.kind = "response" ->
             Fulfilled(errorOutcome(domain, index, <<"H","T","T","P"," ">> \o ToDecimal(ev.status)))
      [] ev.kind = "text" ->
             Fulfilled(doneOutcome(domain, index, Detection[ev.html]))
      [] ev.kind = "reject" -> Rejected(ev.error)

\* route.ts scrapeWithFetch
scrapeWithFetch(domain, index, ev) ==
    CASE ev.kind = "response" ->
             Fulfilled(errorOutcome(domain, index, <<"H","T","T","P"," ">> \o ToDecimal(ev.status)))
      [] ev.kind = "text" ->
             Fulfilled(doneOutcome(domain, index, Detection[ev.html]))
      [] ev.kind = "reject" ->
             Fulfilled(errorOutcome(domain, index, fetchErrorMessage(ev.error)))

\* route.ts scrapeWithFirecrawl
scrapeWithFirecrawl(domain, index, ev) ==
    CASE ev.kind = "scraped" ->
             LET html == IF ev.result.hasHtml THEN ev.result.html ELSE <<>>
             IN  Fulfilled(doneOutcome(domain, index, Detection[html]))
      [] ev.kind = "reject" ->
             Fulfilled(errorOutcome(domain, index,
                 IF ev.error.isError THEN slice(ev.error.message, 50)
                 ELSE <<"F","i","r","e","c","r","a","w","l"," ","e","r","r","o","r">>))

\* part_000 scrapeDomain
scrapeDomainSeq(domain, ev) ==
    LET caught(error) ==
            [domain |-> domain, status |-> "error",
             error |-> IF error.isError THEN error.message ELSE <<"U","n","k","n","o","w","n"," ","e","r","r","o","r">>,
             paymentPortals |-> <<>>, psaPortals |-> <<>>]
    IN  CASE ev.kind = "response" ->
                 Fulfilled(caught([isError |-> TRUE, name |-> "Error",
                                   message |-> <<"H","T","T","P"," ">> \o ToDecimal(ev.status)]))
          [] ev.kind = "text" ->
                 LET detection == DetectionSeq[ev.html]
                 IN  Fulfilled([domain |-> domain, status |-> "done",
                                paymentPortals |-> detection.paymentPortals,
                                psaPortals |-> detection.psaPortals])
          [] ev.kind = "reject" -> Fulfilled(caught(ev.error))

-----------------------------------------------------------------------------
\* Request bodies.  A JSON value is a record tagged with its type.

JString(v) == [t |-> "string", v |-> v]
\* A number, by its literal
JNumber(v) == [t |-> "number", v |-> v]
JArray(items) == [t |-> "array", items |-> items]
JObject(d) == [t |-> "object", domains |-> d]
JUndefined == [t |-> "undefined"]
JNull == [t |-> "null"]
\* A body that is not JSON: request.json() rejects
NotJson == [t |-> "syntax error"]

\* The body a client sends for a list of domain strings
BodyOf(list) == JObject(JArray([k \in 1..Len(list) |-> JString(list[k])]))

\* Bodies that the route accepts, and bodies it must refuse
ValidBodies == { BodyOf(RequestOf(n)) : n \in 1..2 }
InvalidBodies ==
    { BodyOf(<<>>),
      BodyOf(RequestOf(31)),
      JObject(JArray(<<JString(DomainNames[1]), JNumber(<<"4","2">>)>>)),
      JObject(JArray(<<JNull>>)),
      JObject(JString(DomainNames[1])),
      JObject(JUndefined),
      JNull,
      NotJson }

\* Variant: the schema has no .max(30)
requestSchema_noMax(b) ==
    /\ b.t = "object"
    /\ b.domains.t = "array"
    /\ \A k \in 1..Len(b.domains.items) : b.domains.items[k].t = "string"
    /\ Len(b.domains.items) >= 1

\* requestSchema.parse(body) does not throw:
\* z.object({ domains: z.array(z.string()).min(1).max(30) })
requestSchema(b) ==
    /\ b.t = "object"
    /\ b.domains.t = "array"
    /\ \A k \in 1..Len(b.domains.items) : b.domains.items[k].t = "string"
    /\ Len(b.domains.items) >= 1
    /\ Len(b.domains.items) <= 30

\* const { domains } = requestSchema.parse(body)
parsedDomains(b) == [k \in 1..Len(b.domains.items) |-> b.domains.items[k].v]

-----------------------------------------------------------------------------
\* State

VARIABLES
    page,             \* the client page: the React state of HomePage
    run,              \* the client page: its callbacks in progress and their locals
    body,             \* the JSON body of the request
    route,            \* "parallel" (route.ts) or "sequential" (part_000)
    firecrawl,        \* route.ts: FIRECRAWL_API_KEY is configured
    domains,          \* the parsed request
    pc,               \* position of the stream's start(): request, awaiting, done, failed
    i,                \* loop variable of the orchestrator
    call,             \* per position 0..n-1: the promise of its per-domain call
    net,              \* per position: the latest network event the call was resumed by
    lastSettled,      \* position of the call that settled most recently in the current window, -1 if none
    stream,           \* events enqueued on the ReadableStream
    streamState,      \* "readable", "closed", "errored"
    timers            \* timeout timers of the direct-fetch calls: the positions
                      \* whose timer is set and has neither fired nor been cleared
                      \* (followed only by the specifications that say so)

vars == <<page, run, body, route, firecrawl, domains, pc, i, call, net, lastSettled, stream, streamState,
         timers>>

\* useState(...) of HomePage: the state of the page when it is mounted.
\* null is a record of its own, a string the code builds is a sequence of
\* characters.
Null == [isNull |-> TRUE]
InitialPage ==
    [file |-> Null, domains |-> <<>>, results |-> <<>>, isProcessing |-> FALSE,
     currentBatch |-> 0, totalBatches |-> 0, error |-> Null, scraperType |-> ""]

\* No callback of the page is in progress
IdleRun ==
    [legacy |-> FALSE, pc |-> "idle", loading |-> <<>>, domains |-> <<>>,
     batches |-> <<>>, i |-> 0, startIndex |-> 0, sent |-> <<>>,
     buffer |-> <<>>, events |-> <<>>, wire |-> <<>>, handled |-> <<>>]

N == Len(domains)
Positions == 0..(N - 1)

Idle == [state |-> "idle"]
Pending(at) == [state |-> "pending", at |-> at]
\* A call awaiting the answer to the request it sent to the resolved URL
Requested(at, domain) == [state |-> "pending", at |-> at, url |-> resolveUrl(domain)]
NoEvent == [kind |-> "none"]

Init ==
    /\ route \in {"parallel", "sequential"}
    /\ firecrawl \in IF route = "parallel" THEN BOOLEAN ELSE {FALSE}
    /\ domains \in Requests
    /\ body = BodyOf(domains)
    /\ pc = "request"
    /\ i = 0
    /\ call = [k \in 0..(Len(domains) - 1) |-> Idle]
    /\ net = [k \in 0..(Len(domains) - 1) |-> NoEvent]
    /\ lastSettled = -1
    /\ stream = <<>>
    /\ streamState = "readable"
    /\ timers = [followed |-> FALSE, armed |-> {}]
    /\ page = InitialPage
    /\ run = IdleRun

\* Variant: the slice is one short (i + CONCURRENT_LIMIT - 1)
Window_short(start) == start..(Min(start + CONCURRENT_LIMIT - 1, N) - 1)

\* Variant: the slice is one long (i + CONCURRENT_LIMIT + 1)
Window_long(start) == start..(Min(start + CONCURRENT_LIMIT + 1, N) - 1)

\* domains.slice(i, i + CONCURRENT_LIMIT), as positions
Window(start) == start..(Min(start + CONCURRENT_LIMIT, N) - 1)

\* Variant: the strategy is chosen per domain, a string that carries a scheme
\* goes to the direct fetch
scrapeDomain_perDomain(k) ==
    Requested(IF firecrawl /\ ~startsWith(domains[k + 1], <<"h","t","t","p">>) THEN "scrape" ELSE "fetch",
              domains[k + 1])

\* route.ts scrapeDomain: the call runs up to its first await
scrapeDomain(k) == Requested(IF firecrawl THEN "scrape" ELSE "fetch", domains[k + 1])

\* Variant: the chunk is domains.slice(i), every remaining domain
startWindow_rest(start) ==
    [k \in Positions |-> IF k >= start THEN scrapeDomain(k) ELSE call[k]]

\* chunk.map((domain, j) => scrapeDomain(domain, i + j))
startWindow(start) ==
    [k \in Positions |-> IF k \in Window(start) THEN scrapeDomain(k) ELSE call[k]]

\* Variant: the call is given its index within the chunk (j, not i + j)
settle_chunkIndex(k, ev) ==
    IF route = "sequential" THEN scrapeDomainSeq(domains[k + 1], ev)
    ELSE IF firecrawl THEN scrapeWithFirecrawl(domains[k + 1], k % CONCURRENT_LIMIT, ev)
    ELSE scrapeWithFetch(domains[k + 1], k % CONCURRENT_LIMIT, ev)

\* The settlement of call k on network event ev
settle(k, ev) ==
    IF route = "sequential" THEN scrapeDomainSeq(domains[k + 1], ev)
    ELSE IF firecrawl THEN scrapeWithFirecrawl(domains[k + 1], k, ev)
    ELSE scrapeWithFetch(domains[k + 1], k, ev)

Settle(k, ev) ==
    /\ call' = [call EXCEPT ![k] = settle(k, ev)]
    /\ net' = [net EXCEPT ![k] = ev]
    /\ lastSettled' = k
    /\ UNCHANGED <<page, run, body, route, firecrawl, domains, pc, i, stream, streamState>>

At(k, at) == call[k].state = "pending" /\ call[k].at = at

\* setTimeout(() => controller.abort(), ...) of every direct-fetch call that
\* the step starts
Arm(newCalls) ==
    [timers EXCEPT !.armed =
        IF timers.followed
        THEN @ \cup { k \in DOMAIN newCalls :
                        /\ call[k].state = "idle"
                        /\ newCalls[k].state = "pending"
                        /\ newCalls[k].at = "fetch" }
        ELSE @]

\* clearTimeout(timeout), or the timer has fired
Disarm(k) == [timers EXCEPT !.armed = @ \ {k}]

\* The timer of call k can still fire.  Where the timers are not followed,
\* only the timer of a pending fetch() is considered.
TimerArmed(k) == IF timers.followed THEN k \in timers.armed ELSE At(k, "fetch")

-----------------------------------------------------------------------------
\* Network events

\* fetch() resolves with a response of one of the given statuses: the timer
\* is cleared; a non-2xx response ends the call, a 2xx response goes on to
\* response.text()
fetchRespondsWith(k, statuses) ==
    /\ At(k, "fetch")
    /\ \E s \in statuses :
         IF ok(s)
         THEN /\ call' = [call EXCEPT ![k] = Pending("text")]
              /\ net' = [net EXCEPT ![k] = [kind |-> "response", status |-> s]]
              /\ UNCHANGED <<page, run, body, route, firecrawl, domains, pc, i, lastSettled,
                             stream, streamState>>
         ELSE Settle(k, [kind |-> "response", status |-> s])
    /\ timers' = Disarm(k)

fetchResponds(k) == fetchRespondsWith(k, Statuses)

\* fetch() rejects with one of the given transport errors; the catch block
\* leaves the timer as it is
fetchRejectsWith(k, errors) ==
    /\ At(k, "fetch")
    /\ \E e \in errors : Settle(k, [kind |-> "reject", error |-> e])
    /\ UNCHANGED timers

fetchRejects(k) == fetchRejectsWith(k, TransportErrors)

\* Variant: the timer's callback settles the call it belongs to whatever
\* state that call is in
timeoutFires_overwrite(k) ==
    /\ TimerArmed(k)
    /\ Settle(k, [kind |-> "reject", error |-> AbortError])
    /\ timers' = Disarm(k)

\* The callback of setTimeout(() => controller.abort(), ...) runs:
\* controller.abort() rejects the fetch() of this call with an AbortError if
\* it is still pending, and has no effect on a fetch() that has settled
timeoutFires(k) ==
    /\ TimerArmed(k)
    /\ IF At(k, "fetch")
       THEN Settle(k, [kind |-> "reject", error |-> AbortError])
       ELSE UNCHANGED <<page, run, body, route, firecrawl, domains, pc, i, call, net,
                        lastSettled, stream, streamState>>
    /\ timers' = Disarm(k)

\* response.text() resolves with one of the given bodies
textResolvesWith(k, contents) ==
    /\ At(k, "text")
    /\ \E c \in contents : Settle(k, [kind |-> "text", html |-> c])
    /\ UNCHANGED timers

textResolves(k) == textResolvesWith(k, Contents)

\* response.text() rejects
textRejectsWith(k, errors) ==
    /\ At(k, "text")
    /\ \E e \in errors : Settle(k, [kind |-> "reject", error |-> e])
    /\ UNCHANGED timers

textRejects(k) == textRejectsWith(k, TransportErrors)

\* firecrawl.scrape() resolves
firecrawlResolvesWith(k, results) ==
    /\ At(k, "scrape")
    /\ \E r \in results : Settle(k, [kind |-> "scraped", result |-> r])
    /\ UNCHANGED timers

firecrawlResolves(k) == firecrawlResolvesWith(k, FirecrawlResults)

\* firecrawl.scrape() rejects
firecrawlRejectsWith(k, errors) ==
    /\ At(k, "scrape")
    /\ \E e \in errors : Settle(k, [kind |-> "reject", error |-> e])
    /\ UNCHANGED timers

firecrawlRejects(k) == firecrawlRejectsWith(k, FirecrawlErrors)

-----------------------------------------------------------------------------
\* Orchestration

\* route.ts POST: start(controller) up to the first await (Promise.all of
\* the first window)
POST ==
    /\ route = "parallel"
    /\ pc = "request"
    /\ stream' = <<[type |-> "info",
                    scraper |-> IF firecrawl THEN "firecrawl" ELSE "fetch"]>>
    /\ i' = 0
    /\ call' = startWindow(0)
    /\ timers' = Arm(startWindow(0))
    /\ pc' = "awaiting"
    /\ UNCHANGED <<page, run, body, route, firecrawl, domains, net, lastSettled, streamState>>

\* Variant: the values are in the order the calls settled (the one that
\* settled last comes last)
PromiseAll_settleOrder(w) ==
    IF \E k \in w : call[k].state = "rejected"
    THEN [state |-> "rejected"]
    ELSE IF \A k \in w : call[k].state = "fulfilled"
    THEN LET inOrder == [j \in 1..Cardinality(w) |-> i + j - 1]
             early   == SelectSeq(inOrder, LAMBDA k : k # lastSettled)
             late    == SelectSeq(inOrder, LAMBDA k : k = lastSettled)
             order   == early \o late
         IN  [state |-> "fulfilled",
              value |-> [j \in 1..Len(order) |-> call[order[j]].value]]
    ELSE [state |-> "pending"]

\* Variant: Promise.race-like, fulfilled with the values at hand as soon as
\* one call is fulfilled
PromiseAll_first(w) ==
    IF \E k \in w : call[k].state = "rejected"
    THEN [state |-> "rejected"]
    ELSE IF \E k \in w : call[k].state = "fulfilled"
    THEN LET inOrder == [j \in 1..Cardinality(w) |-> i + j - 1]
             ready   == SelectSeq(inOrder, LAMBDA k : call[k].state = "fulfilled")
         IN  [state |-> "fulfilled",
              value |-> [j \in 1..Len(ready) |-> call[ready[j]].value]]
    ELSE [state |-> "pending"]

\* Promise.all(promises): rejected as soon as one promise is, fulfilled
\* with the values in array order once all are
PromiseAll(w) ==
    IF \E k \in w : call[k].state = "rejected"
    THEN [state |-> "rejected"]
    ELSE IF \A k \in w : call[k].state = "fulfilled"
    THEN [state |-> "fulfilled",
          value |-> [j \in 1..Cardinality(w) |-> call[i + j - 1].value]]
    ELSE [state |-> "pending"]

\* Variant: each window's events are put ahead of the earlier results
enqueueResults_front(q, results) ==
    <<q[1]>> \o [j \in 1..Len(results) |-> results[j] @@ [type |-> "result"]] \o Tail(q)

\* Variant: the info event is enqueued inside the for-await loop, ahead of
\* the results of each window
enqueueResults_announce(q, results) ==
    q \o <<[type |-> "info", scraper |-> IF firecrawl THEN "firecrawl" ELSE "fetch"]>>
      \o [j \in 1..Len(results) |-> results[j] @@ [type |-> "result"]]

\* for await (const result of processInParallel(domains)): one result event
\* per yielded result, in the order yielded
enqueueResults(q, results) ==
    q \o [j \in 1..Len(results) |-> results[j] @@ [type |-> "result"]]

\* route.ts processInParallel and the for-await loop of POST, from the
\* settlement of Promise.all to the next await or the end of start()
processInParallel ==
    /\ route = "parallel"
    /\ pc = "awaiting"
    /\ LET all == PromiseAll(Window(i))
       IN  /\ all.state # "pending"
           /\ IF all.state = "rejected"
              THEN /\ pc' = "failed"
                   /\ streamState' = "errored"
                   /\ UNCHANGED <<i, call, lastSettled, stream, timers>>
              ELSE LET results == all.value
                       emitted == enqueueResults(stream, results)
                       next    == i + CONCURRENT_LIMIT
                   IN  /\ i' = next
                       /\ IF next < N
                          THEN /\ stream' = emitted
                               /\ call' = startWindow(next)
                               /\ timers' = Arm(startWindow(next))
                               /\ lastSettled' = -1
                               /\ UNCHANGED <<pc, streamState>>
                          ELSE /\ stream' = Append(emitted, [type |-> "batch_complete"])
                               /\ streamState' = "closed"
                               /\ pc' = "done"
                               /\ UNCHANGED <<call, lastSettled, timers>>
    /\ UNCHANGED <<page, run, body, route, firecrawl, domains, net>>

\* Variant: the loop does not enqueue the processing notice of the first domain
POSTSeq_noNotice ==
    /\ route = "sequential"
    /\ pc = "request"
    /\ i' = 0
    /\ stream' = <<>>
    /\ call' = [call EXCEPT ![0] = Requested("fetch", domains[1])]
    /\ timers' = Arm([call EXCEPT ![0] = Requested("fetch", domains[1])])
    /\ pc' = "awaiting"
    /\ UNCHANGED <<page, run, body, route, firecrawl, domains, net, lastSettled, streamState>>

\* part_000 POST: start(controller) up to the first await
POSTSeq ==
    /\ route = "sequential"
    /\ pc = "request"
    /\ i' = 0
    /\ stream' = <<[type |-> "processing", domain |-> domains[1], index |-> 0]>>
    /\ call' = [call EXCEPT ![0] = Requested("fetch", domains[1])]
    /\ timers' = Arm([call EXCEPT ![0] = Requested("fetch", domains[1])])
    /\ pc' = "awaiting"
    /\ UNCHANGED <<page, run, body, route, firecrawl, domains, net, lastSettled, streamState>>

\* Variant: start() returns without controller.close()
resumeSeq_noClose ==
    /\ route = "sequential"
    /\ pc = "awaiting"
    /\ call[i].state = "fulfilled"
    /\ LET emitted == Append(stream, [index |-> i] @@ call[i].value @@ [type |-> "result"])
       IN  /\ i' = i + 1
           /\ IF i + 1 < N
              THEN /\ stream' = Append(emitted,
                          [type |-> "processing", domain |-> domains[i + 2],
                           index |-> i + 1])
                   /\ call' = [call EXCEPT ![i + 1] = Requested("fetch", domains[i + 2])]
                   /\ timers' = Arm([call EXCEPT ![i + 1] = Requested("fetch", domains[i + 2])])
                   /\ lastSettled' = -1
                   /\ UNCHANGED <<pc, streamState>>
              ELSE /\ stream' = Append(emitted, [type |-> "batch_complete"])
                   /\ pc' = "done"
                   /\ UNCHANGED <<call, lastSettled, streamState, timers>>
    /\ UNCHANGED <<page, run, body, route, firecrawl, domains, net>>

\* part_000 POST: from the settlement of `await scrapeDomain(domain)` to the
\* next await or the end of start()
resumeSeq ==
    /\ route = "sequential"
    /\ pc = "awaiting"
    /\ call[i].state \in {"fulfilled", "rejected"}
    /\ IF call[i].state = "rejected"
       THEN /\ pc' = "failed"
            /\ streamState' = "errored"
            /\ UNCHANGED <<i, call, lastSettled, stream, timers>>
       ELSE LET result  == call[i].value
                emitted == Append(stream, [index |-> i] @@ result @@ [type |-> "result"])
            IN  /\ i' = i + 1
                /\ IF i + 1 < N
                   THEN /\ stream' = Append(emitted,
                               [type |-> "processing", domain |-> domains[i + 2],
                                index |-> i + 1])
                        /\ call' = [call EXCEPT ![i + 1] = Requested("fetch", domains[i + 2])]
                        /\ timers' = Arm([call EXCEPT ![i + 1] = Requested("fetch", domains[i + 2])])
                        /\ lastSettled' = -1
                        /\ UNCHANGED <<pc, streamState>>
                   ELSE /\ stream' = Append(emitted, [type |-> "batch_complete"])
                        /\ streamState' = "closed"
                        /\ pc' = "done"
                        /\ UNCHANGED <<call, lastSettled, timers>>
    /\ UNCHANGED <<page, run, body, route, firecrawl, domains, net>>

Next ==
    \/ POST
    \/ POSTSeq
    \/ \E k \in Positions : fetchResponds(k)
    \/ \E k \in Positions : fetchRejects(k)
    \/ \E k \in Positions : timeoutFires(k)
    \/ \E k \in Positions : textResolves(k)
    \/ \E k \in Positions : textRejects(k)
    \/ \E k \in Positions : firecrawlResolves(k)
    \/ \E k \in Positions : firecrawlRejects(k)
    \/ processInParallel
    \/ resumeSeq

Spec == Init /\ [][Next]_vars

-----------------------------------------------------------------------------
\* Single calls in the wider world

CallInit ==
    /\ route \in {"parallel", "sequential"}
    /\ firecrawl \in IF route = "parallel" THEN BOOLEAN ELSE {FALSE}
    /\ domains \in CallRequests
    /\ body = BodyOf(domains)
    /\ pc = "request"
    /\ i = 0
    /\ call = [k \in 0..(Len(domains) - 1) |-> Idle]
    /\ net = [k \in 0..(Len(domains) - 1) |-> NoEvent]
    /\ lastSettled = -1
    /\ stream = <<>>
    /\ streamState = "readable"
    /\ timers = [followed |-> TRUE, armed |-> {}]
    /\ page = InitialPage
    /\ run = IdleRun

CallNext ==
    \/ POST
    \/ POSTSeq
    \/ \E k \in Positions : fetchRespondsWith(k, AllStatuses)
    \/ \E k \in Positions : fetchRejectsWith(k, AllTransportErrors)
    \/ \E k \in Positions : timeoutFires(k)
    \/ \E k \in Positions : textResolvesWith(k, AllContents)
    \/ \E k \in Positions : textRejectsWith(k, AllTransportErrors)
    \/ \E k \in Positions : firecrawlResolvesWith(k, AllFirecrawlResults)
    \/ \E k \in Positions : firecrawlRejectsWith(k, AllFirecrawlErrors)
    \/ processInParallel
    \/ resumeSeq

CallSpec == CallInit /\ [][CallNext]_vars

-----------------------------------------------------------------------------
\* Intake of a request, from the arrival of its body

IntakeInit ==
    /\ body \in ValidBodies \cup InvalidBodies
    /\ route \in {"parallel", "sequential"}
    /\ firecrawl \in IF route = "parallel" THEN BOOLEAN ELSE {FALSE}
    /\ domains = <<>>
    /\ pc = "received"
    /\ i = 0
    /\ call = <<>>
    /\ net = <<>>
    /\ lastSettled = -1
    /\ stream = <<>>
    /\ streamState = "readable"
    /\ timers = [followed |-> FALSE, armed |-> {}]
    /\ page = InitialPage
    /\ run = IdleRun

\* POST, from the resolution of `await request.json()`: the body is parsed;
\* a body that is not JSON or that the schema refuses is answered by the
\* catch block, an accepted one reaches the construction of the stream (the
\* state in which Init starts)
parseRequest ==
    /\ pc = "received"
    /\ IF body # NotJson /\ requestSchema(body)
       THEN /\ domains' = parsedDomains(body)
            /\ call' = [k \in 0..(Len(domains') - 1) |-> Idle]
            /\ net' = [k \in 0..(Len(domains') - 1) |-> NoEvent]
            /\ pc' = "request"
       ELSE /\ pc' = "rejected"
            /\ UNCHANGED <<domains, call, net>>
    /\ UNCHANGED <<page, run, body, route, firecrawl, i, lastSettled, stream, streamState,
                   timers>>

\* The HTTP response of POST: none before the body is parsed,
\* Response.json(..., { status: 400 }) from the catch block, a streaming
\* response otherwise
Response ==
    CASE pc = "received" -> [sent |-> FALSE]
      [] pc = "rejected" -> [sent |-> TRUE, status |-> 400, streaming |-> FALSE]
      [] OTHER           -> [sent |-> TRUE, status |-> 200, streaming |-> TRUE]

IntakeNext ==
    \/ parseRequest
    \/ Next

IntakeSpec == IntakeInit /\ [][IntakeNext]_vars


-----------------------------------------------------------------------------
\* The client page: src/app/page.tsx, and the earlier page that is kept at
\* the end of route.ts (run.legacy).  The page posts the loaded domains in
\* batches to the route and fills its table from the event stream.

BATCH_SIZE == 30

\* handleFileChange refuses a file with more domains than this
MaximumDomains == 300

\* Lengths of the lists that parseCSV returns for the files a user selects,
\* the lengths for a file selected while a list is already loaded, and how
\* many selected files can be waiting for their text at a time
FileSizes == {0, 1, 2, 3, 31, 301}
ReselectSizes == {1}
MaxLoads == 1

\* Batches of at most this many domains are answered in every arrival order
MaxPermuted == 3

\* A response of at most MaxSplitEvents events arrives in chunks of 1 to
\* MaxChunk symbols, or what is left of it all at once; a longer one arrives
\* in chunks of BigChunk symbols
MaxChunk == 3
MaxSplitEvents == 7
BigChunk == 40
\* No chunk is longer than this
MaxRead == 150

\* A File, by the number of distinct valid domains in its text
FileOf(n) == [isNull |-> FALSE, domains |-> n]
Files == { FileOf(n) : n \in FileSizes }

\* parseCSV(await selectedFile.text()): distinct lower-case names without
\* scheme, in the order of the file
ParsedOf(selectedFile) ==
    [k \in 1..selectedFile.domains |-> (<<"d">> \o ToDecimal(k)) \o <<".","c","o">>]

\* A string value of the error state
Message(text) == [isNull |-> FALSE, message |-> text]

\* parsed.map(d => ({ domain: d, status: 'pending', paymentPortals: [], psaPortals: [] }))
pendingRows(parsed) ==
    [j \in 1..Len(parsed) |->
        [domain |-> parsed[j], status |-> "pending",
         paymentPortals |-> <<>>, psaPortals |-> <<>>]]

\* Math.ceil(parsed.length / BATCH_SIZE)
ceilBatches(length) == (length + BATCH_SIZE - 1) \div BATCH_SIZE

\* Variant: the loop advances by BATCH_SIZE - 1, consecutive slices share a domain
sliceBatches_overlap(domains_, at, batches) ==
    LET RECURSIVE loop(_, _)
        loop(j, acc) ==
            IF j < Len(domains_)
            THEN loop(j + BATCH_SIZE - 1,
                      Append(acc, SubSeq(domains_, j + 1, Min(j + BATCH_SIZE, Len(domains_)))))
            ELSE acc
    IN  loop(at, batches)

\* for (let i = 0; i < domains.length; i += BATCH_SIZE)
\*   batches.push(domains.slice(i, i + BATCH_SIZE))
RECURSIVE sliceBatches(_, _, _)
sliceBatches(domains_, at, batches) ==
    IF at < Len(domains_)
    THEN sliceBatches(domains_, at + BATCH_SIZE,
             Append(batches, SubSeq(domains_, at + 1, Min(at + BATCH_SIZE, Len(domains_)))))
    ELSE batches

\* JSX: the upload card, with the file input and the Start button
uploadCardShown ==
    /\ ~page.isProcessing
    /\ \A j \in 1..Len(page.results) : page.results[j].status = "pending"

\* JSX: the results card; its New Scan button is there when no scan runs
resultsCardShown ==
    \/ page.isProcessing
    \/ \E j \in 1..Len(page.results) : page.results[j].status # "pending"

-----------------------------------------------------------------------------
\* The route's answer to a batch.  What a site answers depends on the
\* position g of its domain in the loaded list only.

AnswerOf(g) ==
    IF firecrawl
    THEN IF g % 3 = 0
         THEN [kind |-> "scraped",
               result |-> [hasHtml |-> TRUE, html |-> <<"s","r","c","=","j","s",".","s","t","r","i","p","e",".","c","o","m","/","v","3">>]]
         ELSE [kind |-> "reject", error |-> ProviderFailure]
    ELSE CASE g % 3 = 0 -> [kind |-> "text", html |-> <<"s","r","c","=","j","s",".","s","t","r","i","p","e",".","c","o","m","/","v","3">>]
           [] g % 3 = 1 -> [kind |-> "response", status |-> 404]
           [] OTHER     -> [kind |-> "reject", error |-> AbortError]

\* The result event of the domain at index k of a batch that starts at offset
ResultEvent(batch, offset, k) ==
    LET domain == batch[k + 1]
        ev     == AnswerOf(offset + k)
    IN  IF route = "sequential"
        THEN [index |-> k] @@ scrapeDomainSeq(domain, ev).value @@ [type |-> "result"]
        ELSE IF firecrawl
        THEN scrapeWithFirecrawl(domain, k, ev).value @@ [type |-> "result"]
        ELSE scrapeWithFetch(domain, k, ev).value @@ [type |-> "result"]

\* Orders in which the results of a batch of n domains arrive
Orders(n) ==
    IF n <= MaxPermuted
    THEN { p \in [1..n -> 0..(n - 1)] : \A a, b \in 1..n : a # b => p[a] # p[b] }
    ELSE { [j \in 1..n |-> j - 1], [j \in 1..n |-> n - j] }

\* The events of the answer: route.ts sends the info event, the results and
\* batch_complete; part_000 sends each result behind the processing notice
\* of its domain.
ResponseEvents(batch, offset, order) ==
    LET n == Len(batch)
    IN  IF route = "sequential"
        THEN [j \in 1..(2 * n) |->
                 LET k == order[(j + 1) \div 2]
                 IN  IF j % 2 = 1
                     THEN [type |-> "processing", domain |-> batch[k + 1], index |-> k]
                     ELSE ResultEvent(batch, offset, k)]
             \o <<[type |-> "batch_complete"]>>
        ELSE <<[type |-> "info", scraper |-> IF firecrawl THEN "firecrawl" ELSE "fetch"]>>
             \o [j \in 1..n |-> ResultEvent(batch, offset, order[j])]
             \o <<[type |-> "batch_complete"]>>

-----------------------------------------------------------------------------
\* The bytes of the answer.  A symbol of the text is a character of the
\* framing, [ch |-> c], or a member of the JSON object with its value,
\* [member |-> name, value |-> v].

Ch(c) == [ch |-> c]
Chars(s) == [j \in 1..Len(s) |-> Ch(s[j])]

\* Members of the events, in the order the objects are written
MemberOrder ==
    <<"type", "scraper", "domain", "index", "status", "error",
      "paymentPortals", "psaPortals">>

\* JSON.stringify(data)
JSONstringify(data) ==
    LET present == SelectSeq(MemberOrder, LAMBDA m : m \in DOMAIN data)
    IN  <<Ch("{")>>
        \o [j \in 1..Len(present) |-> [member |-> present[j], value |-> data[present[j]]]]
        \o <<Ch("}")>>

\* encoder.encode(`data: ${JSON.stringify(data)}\n\n`)
encode(data) == (Chars(<<"d","a","t","a",":"," ">>) \o JSONstringify(data)) \o <<Ch("\n"), Ch("\n")>>

\* The enqueued chunks one after the other
RECURSIVE Wire(_)
Wire(events) ==
    IF events = <<>> THEN <<>> ELSE encode(Head(events)) \o Wire(Tail(events))

\* JSON.parse(text) does not throw a SyntaxError
IsJSON(text) ==
    /\ Len(text) >= 2
    /\ text[1] = Ch("{")
    /\ text[Len(text)] = Ch("}")
    /\ \A j \in 2..(Len(text) - 1) : "member" \in DOMAIN text[j]

\* JSON.parse(text)
JSONparse(text) ==
    [m \in { text[j].member : j \in 2..(Len(text) - 1) } |->
        text[CHOOSE j \in 2..(Len(text) - 1) : text[j].member = m].value]

\* buffer.split('\n\n'): the text is cut at every "\n\n", found from the
\* left, so that in a run of newlines the pairs are counted from its start
split(text) ==
    LET newline(j) == text[j] = Ch("\n")
        \* the run of newlines that ends just before position j starts here
        runStart(j) ==
            CHOOSE h \in 1..j :
                /\ \A g \in h..(j - 1) : newline(g)
                /\ h > 1 => ~newline(h - 1)
        cuts == { j \in 1..(Len(text) - 1) :
                    /\ newline(j) /\ newline(j + 1)
                    /\ (j - runStart(j)) % 2 = 0 }
        cut(m) == CHOOSE j \in cuts : Cardinality({ h \in cuts : h < j }) = m - 1
        count == Cardinality(cuts)
    IN  [m \in 1..(count + 1) |->
            SubSeq(text,
                   IF m = 1 THEN 1 ELSE cut(m - 1) + 2,
                   IF m = count + 1 THEN Len(text) ELSE cut(m) - 1)]

\* Variant: the incomplete tail of the buffer is thrown away
pop_discard(segments) == <<>>

\* lines.pop() || '': the text behind the last separator
pop(segments) == segments[Len(segments)]

\* The lines that are left in the array after lines.pop()
popped(segments) == SubSeq(segments, 1, Len(segments) - 1)

\* prev.map((r, i) => i === globalIndex ? row : r)
mapRow(prev, globalIndex, row) ==
    [j \in 1..Len(prev) |-> IF j - 1 = globalIndex THEN row ELSE prev[j]]

\* The row that page.tsx builds from a result event; a field whose value is
\* undefined is left out
resultRow(data) ==
    LET paymentPortals ==
            IF "paymentPortals" \in DOMAIN data THEN data.paymentPortals ELSE <<>>
        psaPortals ==
            IF "psaPortals" \in DOMAIN data THEN data.psaPortals ELSE <<>>
    IN  IF "error" \in DOMAIN data
        THEN [domain |-> data.domain, status |-> data.status,
              paymentPortals |-> paymentPortals, psaPortals |-> psaPortals,
              error |-> data.error]
        ELSE [domain |-> data.domain, status |-> data.status,
              paymentPortals |-> paymentPortals, psaPortals |-> psaPortals]

\* The row that the earlier page builds from a result event (no `|| []`)
resultRowLegacy(data) ==
    [m \in {"domain", "status", "paymentPortals", "psaPortals", "error"} \cap DOMAIN data |->
        data[m]]

\* Variant: the row of a result is found by the event's index within the
\* batch, without the start offset
handleEvent_batchIndex(data, startIndex, st) ==
    IF data.type = "result"
    THEN [st EXCEPT !.results =
             mapRow(@, data.index,
                    IF run.legacy THEN resultRowLegacy(data) ELSE resultRow(data))]
    ELSE IF data.type = "processing" /\ run.legacy
    THEN [st EXCEPT !.results =
             [j \in 1..Len(@) |->
                 IF j - 1 = startIndex + data.index
                 THEN [@[j] EXCEPT !.status = "processing"]
                 ELSE @[j]]]
    ELSE IF data.type = "info" /\ ~run.legacy
    THEN [st EXCEPT !.scraperType = data.scraper]
    ELSE st

\* Variant: a result is put into the first row that is still pending
handleEvent_arrival(data, startIndex, st) ==
    IF data.type = "result"
    THEN LET waiting == { j \in 1..Len(st.results) :
                            j > startIndex /\ st.results[j].status = "pending" }
         IN  IF waiting = {} THEN st
             ELSE [st EXCEPT !.results =
                      mapRow(@, (CHOOSE j \in waiting : \A h \in waiting : j <= h) - 1,
                             resultRow(data))]
    ELSE st

\* Body of `for (const line of lines)` for one parsed event; st holds the
\* results and scraperType states as the updates queued so far leave them
handleEvent(data, startIndex, st) ==
    IF run.legacy
    THEN IF data.type = "processing"
         THEN LET globalIndex == startIndex + data.index
                  prev        == st.results
              IN  [st EXCEPT !.results =
                      [j \in 1..Len(prev) |->
                          IF j - 1 = globalIndex
                          THEN [prev[j] EXCEPT !.status = "processing"]
                          ELSE prev[j]]]
         ELSE IF data.type = "result"
         THEN [st EXCEPT !.results =
                  mapRow(@, startIndex + data.index, resultRowLegacy(data))]
         ELSE st
    ELSE IF data.type = "info"
         THEN [st EXCEPT !.scraperType = data.scraper]
         ELSE IF data.type = "result"
         THEN [st EXCEPT !.results = mapRow(@, startIndex + data.index, resultRow(data))]
         ELSE st

\* for (const line of lines): every line that starts with 'data: ' is
\* parsed and handled; a SyntaxError of JSON.parse ends the loop
RECURSIVE handleLines(_, _, _, _)
handleLines(lines, j, startIndex, st) ==
    IF j > Len(lines) THEN st
    ELSE IF startsWith(lines[j], Chars(<<"d","a","t","a",":"," ">>))
    THEN LET text == SubSeq(lines[j], 7, Len(lines[j]))
         IN  IF IsJSON(text)
             THEN handleLines(lines, j + 1, startIndex,
                      LET data == JSONparse(text)
                      IN  handleEvent(data, startIndex,
                              [st EXCEPT !.handled = Append(@, data)]))
             ELSE [st EXCEPT !.thrown = TRUE]
    ELSE handleLines(lines, j + 1, startIndex, st)

-----------------------------------------------------------------------------
\* Callbacks of the page

\* The page runs in the browser: the state of the route is not followed
ServerIdle ==
    UNCHANGED <<body, route, firecrawl, domains, pc, i, call, net, lastSettled,
                stream, streamState, timers>>

\* handleFileChange, up to `await selectedFile.text()`.  The file input is
\* on the upload card; once a list is loaded or a file is being read, the
\* user selects a file of ReselectSizes.
handleFileChange(selectedFile) ==
    /\ uploadCardShown
    /\ Len(run.loading) < MaxLoads
    /\ (page.domains # <<>> \/ run.loading # <<>>) =>
           selectedFile.domains \in ReselectSizes
    /\ page' = [page EXCEPT !.error = Null]
    /\ run' = [run EXCEPT !.loading = Append(@, selectedFile)]
    /\ ServerIdle

\* handleFileChange, from the resolution of selectedFile.text()
handleFileText(l) ==
    /\ l \in 1..Len(run.loading)
    /\ LET selectedFile == run.loading[l]
           parsed       == ParsedOf(selectedFile)
       IN  /\ run' = [run EXCEPT !.loading =
                         SubSeq(@, 1, l - 1) \o SubSeq(@, l + 1, Len(@))]
           /\ page' =
                IF Len(parsed) = 0
                THEN [page EXCEPT !.error = Message(<<"N","o"," ","v","a","l","i","d"," ","d","o","m","a","i","n","s"," ","f","o","u","n","d">>)]
                ELSE IF Len(parsed) > MaximumDomains
                THEN [page EXCEPT !.error =
                         Message((<<"F","o","u","n","d"," ">> \o ToDecimal(Len(parsed)))
                                 \o <<" ","d","o","m","a","i","n","s","."," ","M","a","x","i","m","u","m"," ","i","s"," ","3","0","0",".">>)]
                ELSE [page EXCEPT !.file = selectedFile,
                                  !.domains = parsed,
                                  !.results = pendingRows(parsed),
                                  !.totalBatches = ceilBatches(Len(parsed))]
    /\ ServerIdle

\* processBatch(batches[b], b * BATCH_SIZE), up to `await fetch(...)`
\* (b counts from 0): the request is sent
processBatch(locals, b) ==
    run' = [locals EXCEPT !.pc = "fetch", !.i = b, !.startIndex = b * BATCH_SIZE,
                          !.buffer = <<>>, !.wire = <<>>, !.events = <<>>,
                          !.handled = <<>>,
                          !.sent = Append(@, [body |-> BodyOf(locals.batches[b + 1]),
                                              startIndex |-> b * BATCH_SIZE])]

\* startScraping has returned: its locals are gone
Returned == [IdleRun EXCEPT !.legacy = run.legacy, !.loading = run.loading]

\* Variant: the error is recorded, but there is no finally block
catch_noFinally(message, st) ==
    /\ page' = [page EXCEPT !.results = st.results, !.scraperType = st.scraperType,
                            !.error = Message(message)]
    /\ run' = Returned

\* catch and finally of startScraping
catch(message, st) ==
    /\ page' = [page EXCEPT !.results = st.results, !.scraperType = st.scraperType,
                            !.error = Message(message), !.isProcessing = FALSE]
    /\ run' = Returned

\* What the states results and scraperType hold, and the events handled
Shown == [results |-> page.results, scraperType |-> page.scraperType,
          handled |-> run.handled, thrown |-> FALSE]

\* startScraping, up to the first `await fetch(...)`.  The Start button is
\* on the upload card and is there when domains.length > 0.
startScraping ==
    /\ uploadCardShown
    /\ Len(page.domains) > 0
    /\ LET batches == sliceBatches(page.domains, 0, <<>>)
       IN  /\ page' = [page EXCEPT !.isProcessing = TRUE, !.currentBatch = 1]
           /\ processBatch([run EXCEPT !.domains = page.domains, !.batches = batches,
                                       !.sent = <<>>], 0)
    /\ ServerIdle

\* `await fetch(...)` of processBatch resolves: a response that is not ok
\* and a response without body are thrown as errors, the body of any other
\* response is read
batchResponds ==
    /\ run.pc = "fetch"
    /\ \/ catch(<<"F","a","i","l","e","d"," ","t","o"," ","p","r","o","c","e","s","s"," ","b","a","t","c","h">>, Shown)
       \/ catch(<<"N","o"," ","r","e","s","p","o","n","s","e"," ","b","o","d","y">>, Shown)
       \/ \E order \in Orders(Len(run.batches[run.i + 1])) :
             LET events == ResponseEvents(run.batches[run.i + 1], run.startIndex, order)
             IN  /\ run' = [run EXCEPT !.pc = "read", !.events = events,
                                       !.wire = Wire(events)]
                 /\ UNCHANGED page
    /\ ServerIdle

\* `await fetch(...)` of processBatch rejects
batchFails ==
    /\ run.pc = "fetch"
    /\ catch(<<"F","a","i","l","e","d"," ","t","o"," ","f","e","t","c","h">>, Shown)
    /\ ServerIdle

\* Lengths of the chunk that the next reader.read() returns
ChunkLengths ==
    IF Len(run.events) <= MaxSplitEvents
    THEN (1..Min(MaxChunk, Len(run.wire))) \cup ({Len(run.wire)} \ {0})
    ELSE {Min(BigChunk, Len(run.wire))} \ {0}

\* `await reader.read()` resolves with a chunk: the loop body of processBatch
readChunk(length) ==
    /\ run.pc = "read"
    /\ length \in ChunkLengths
    /\ LET value    == SubSeq(run.wire, 1, length)
           text     == run.buffer \o value
           segments == split(text)
           buffer   == pop(segments)
           lines    == popped(segments)
           st       == handleLines(lines, 1, run.startIndex, Shown)
       IN  IF st.thrown
           THEN catch(<<"U","n","e","x","p","e","c","t","e","d"," ","e","n","d"," ","o","f"," ","J","S","O","N"," ","i","n","p","u","t">>, st)
           ELSE /\ page' = [page EXCEPT !.results = st.results,
                                        !.scraperType = st.scraperType]
                /\ run' = [run EXCEPT !.buffer = buffer, !.handled = st.handled,
                                      !.wire = SubSeq(@, length + 1, Len(@))]
    /\ ServerIdle

\* `await reader.read()` resolves with done: processBatch returns, and
\* startScraping goes on with the next batch or ends
readDone ==
    /\ run.pc = "read"
    /\ run.wire = <<>>
    /\ IF run.i + 1 < Len(run.batches)
       THEN /\ page' = [page EXCEPT !.currentBatch = run.i + 2]
            /\ processBatch(run, run.i + 1)
       ELSE /\ page' = [page EXCEPT !.isProcessing = FALSE]
            /\ run' = Returned
    /\ ServerIdle

\* `await reader.read()` rejects: the connection is lost
readFails ==
    /\ run.pc = "read"
    /\ catch(<<"n","e","t","w","o","r","k"," ","e","r","r","o","r">>, Shown)
    /\ ServerIdle

\* handleClear: the New Scan button of the results card
handleClear ==
    /\ ~page.isProcessing
    /\ resultsCardShown
    /\ page' = [InitialPage EXCEPT !.isProcessing = page.isProcessing]
    /\ UNCHANGED run
    /\ ServerIdle

ClientInit ==
    /\ page = InitialPage
    /\ route \in {"parallel", "sequential"}
    /\ run = [IdleRun EXCEPT !.legacy = (route = "sequential")]
    /\ firecrawl \in IF route = "parallel" THEN BOOLEAN ELSE {FALSE}
    /\ body = BodyOf(<<>>)
    /\ domains = <<>>
    /\ pc = "received"
    /\ i = 0
    /\ call = <<>>
    /\ net = <<>>
    /\ lastSettled = -1
    /\ stream = <<>>
    /\ streamState = "readable"
    /\ timers = [followed |-> FALSE, armed |-> {}]

ClientNext ==
    \/ \E selectedFile \in Files : handleFileChange(selectedFile)
    \/ \E l \in 1..MaxLoads : handleFileText(l)
    \/ startScraping
    \/ batchResponds
    \/ batchFails
    \/ \E length \in 1..MaxRead : readChunk(length)
    \/ readDone
    \/ readFails
    \/ handleClear

ClientSpec == ClientInit /\ [][ClientNext]_vars
-----------------------------------------------------------------------------
\* Vocabulary of the properties

TypeSlots(type) == { s \in 1..Len(stream) : stream[s].type = type }

ResultSlots == TypeSlots("result")

\* Slots of the stream holding the result event of position k
SlotsOf(k) == { s \in ResultSlots : stream[s].index = k }

Emitted(k) == SlotsOf(k) # {}

WindowStart(k) == (k \div CONCURRENT_LIMIT) * CONCURRENT_LIMIT

SameWindow(a, b) == WindowStart(a) = WindowStart(b)

Settled(k) == call[k].state \in {"fulfilled", "rejected"}

InFlight == { k \in Positions : call[k].state = "pending" }

Started(k) == call[k].state # "idle"

\* The network event was a failure of the call
Failure(ev) == ev.kind \in {"response", "reject"}

-----------------------------------------------------------------------------
\* C1: in both routes the stream of a request of n domains never holds more
\* than n result events or more than one batch_complete event, no result
\* event follows the batch_complete event, and the stream of a request whose
\* start() has returned holds exactly n result events followed by exactly one
\* batch_complete event.
C1_ResultsThenComplete ==
    /\ Cardinality(ResultSlots) <= N
    /\ Cardinality(TypeSlots("batch_complete")) <= 1
    /\ \A r \in ResultSlots : \A c \in TypeSlots("batch_complete") : r < c
    /\ pc = "done" =>
         /\ Cardinality(ResultSlots) = N
         /\ Cardinality(TypeSlots("batch_complete")) = 1

C1_Witness ==
    /\ pc = "done"
    /\ N = MaxDomains
    /\ route = "parallel"
    /\ \E a, b \in Positions : call[a].value.status = "done" /\ call[b].value.status = "error"

\* C2: every result event carries an index in 0..n-1 and the domain string of
\* that position, no two result events carry the same index, and once start()
\* has returned every position has its result event.
C2_OneResultPerPosition ==
    /\ \A s \in ResultSlots :
         /\ stream[s].index \in Positions
         /\ stream[s].domain = domains[stream[s].index + 1]
    /\ \A k \in Positions : Cardinality(SlotsOf(k)) <= 1
    /\ pc = "done" => \A k \in Positions : Cardinality(SlotsOf(k)) = 1

C2_Witness ==
    /\ pc = "done"
    /\ \E a, b \in Positions : a # b /\ domains[a + 1] = domains[b + 1]
                               /\ WindowStart(a) # WindowStart(b)

\* C3: once batch_complete is enqueued it is the last event, the stream is
\* closed, and no step enqueues anything or reopens the stream afterwards;
\* this includes requests whose domains all ended with status error.
C3_CompleteIsFinal ==
    /\ [](TypeSlots("batch_complete") # {} =>
            /\ stream[Len(stream)].type = "batch_complete"
            /\ streamState = "closed")
    /\ [][TypeSlots("batch_complete") # {} =>
            /\ stream' = stream
            /\ streamState' = streamState]_vars

C3_Witness ==
    /\ streamState = "closed"
    /\ N >= 2
    /\ \A s \in ResultSlots : stream[s].status = "error"
    /\ stream[Len(stream)].type = "batch_complete"

\* C5: in the windowed route a call is started only when every call of every
\* earlier window has settled.
C5_WindowBarrier ==
    route = "parallel" =>
        \A k \in Positions : Started(k) =>
            \A j \in Positions : j < WindowStart(k) => Settled(j)

C5_Witness ==
    /\ route = "parallel"
    /\ \E k \in Positions : WindowStart(k) > 0 /\ call[k].state = "pending"

\* C6: in the windowed route at most CONCURRENT_LIMIT calls are in flight.
C6_BoundedFanOut ==
    route = "parallel" => Cardinality(InFlight) <= CONCURRENT_LIMIT

C6_Witness ==
    /\ route = "parallel"
    /\ N > CONCURRENT_LIMIT
    /\ Cardinality(InFlight) = CONCURRENT_LIMIT

\* C7: in the windowed route every result event of a window is enqueued
\* before any result event of the next window.
C7_WindowsInRequestOrder ==
    route = "parallel" =>
        \A s, t \in ResultSlots :
            WindowStart(stream[s].index) < WindowStart(stream[t].index) => s < t

C7_Witness ==
    /\ route = "parallel"
    /\ N > CONCURRENT_LIMIT
    /\ pc = "done"
    /\ \A k \in Window(0) : \A j \in Window(CONCURRENT_LIMIT) :
         \E s \in SlotsOf(k) : \E t \in SlotsOf(j) : s < t

\* The part of the completion order the state keeps: a settled before b when
\* b is the call of their window that settled last.
SettledBefore(a, b) ==
    /\ SameWindow(a, b)
    /\ a # b
    /\ b = lastSettled
    /\ Settled(a)

\* C8 (as stated): within a window result events are enqueued in the order
\* in which the calls settled.
C8_CompletionOrder ==
    route = "parallel" =>
        \A a, b \in Positions :
            SettledBefore(a, b) =>
                \A s \in SlotsOf(a) : \A t \in SlotsOf(b) : s < t

\* C8 (amended): within a window result events are enqueued in request
\* order (ascending index), whatever the order in which the calls settled.
C8_RequestOrderInWindow ==
    route = "parallel" =>
        \A s, t \in ResultSlots :
            (/\ SameWindow(stream[s].index, stream[t].index)
             /\ stream[s].index < stream[t].index) => s < t

C8_Witness ==
    /\ route = "parallel"
    /\ pc = "done"
    /\ \E a \in Positions :
         /\ SettledBefore(a, lastSettled)
         /\ lastSettled < a
         /\ \E s \in SlotsOf(lastSettled) : \E t \in SlotsOf(a) : s < t

\* C9 (as stated): a fulfilled call has its result event in the stream even
\* while another call of its window is still running.
C9_EmittedAtOnce ==
    route = "parallel" =>
        \A k \in Positions :
            (/\ call[k].state = "fulfilled"
             /\ \E j \in Window(WindowStart(k)) : call[j].state = "pending")
            => Emitted(k)

\* C9 (amended): a result event is in the stream exactly when the
\* orchestrator has passed its window, and then every call of that window
\* is fulfilled: results are pushed window by window, once the whole window
\* has resolved.
C9_EmittedPerWindow ==
    route = "parallel" =>
        \A k \in Positions :
            /\ Emitted(k) <=> (pc # "request" /\ k < i)
            /\ Emitted(k) => \A j \in Window(WindowStart(k)) : call[j].state = "fulfilled"

C9_Witness ==
    /\ route = "parallel"
    /\ \E k, j \in Positions :
         /\ SameWindow(k, j)
         /\ call[k].state = "fulfilled"
         /\ call[j].state = "pending"
         /\ ~Emitted(k)

\* The await the orchestrator is suspended at has settled
AwaitSettled ==
    /\ pc = "awaiting"
    /\ IF route = "parallel" THEN \A k \in Window(i) : Settled(k) ELSE Settled(i)

\* Outcome fields other than the position
SameOutcome(v, w) ==
    /\ v.domain = w.domain
    /\ v.status = w.status
    /\ v.paymentPortals = w.paymentPortals
    /\ v.psaPortals = w.psaPortals
    /\ v.status = "error" => v.error = w.error

\* C10: a call ended by a failure (non-2xx response, transport error,
\* timeout, provider error) is fulfilled with a status=error outcome, no call
\* is ever rejected and start() never fails; an outcome is status=error
\* exactly when its own call failed, two calls for the same domain string
\* ended by the same network event have the same outcome whatever happened
\* to the other calls, and a settled await always lets the orchestrator go on.
C10_FailureIsolation ==
    /\ pc # "failed"
    /\ streamState # "errored"
    /\ \A k \in Positions : call[k].state # "rejected"
    /\ \A k \in Positions : call[k].state = "fulfilled" =>
         /\ call[k].value.status = "error" <=> Failure(net[k])
         /\ call[k].value.status = "done" <=> ~Failure(net[k])
         /\ call[k].value.domain = domains[k + 1]
    /\ \A j, k \in Positions :
         (/\ call[j].state = "fulfilled"
          /\ call[k].state = "fulfilled"
          /\ net[j] = net[k]
          /\ domains[j + 1] = domains[k + 1])
         => SameOutcome(call[j].value, call[k].value)
    /\ AwaitSettled => ENABLED (processInParallel \/ resumeSeq)

C10_Witness ==
    /\ pc = "done"
    /\ route = "parallel"
    /\ ~firecrawl
    /\ \E a, b, c, d \in Positions :
         /\ net[a] = [kind |-> "reject", error |-> AbortError]
         /\ net[b] = [kind |-> "response", status |-> 404]
         /\ net[c].kind = "reject" /\ net[c].error \in TransportErrors
         /\ call[d].value.status = "done"
         /\ SameWindow(a, d)

-----------------------------------------------------------------------------
\* Scheduling.  The event loop runs every continuation that is ready.  A
\* pending fetch() ends: the site answers, the transport fails, or the call's
\* own timer aborts it.  firecrawl.scrape() is given a timeout and ends.
\* response.text() runs after clearTimeout(timeout), so nothing in the code
\* ends a body read that the site never finishes.
FairSpec ==
    /\ Spec
    /\ WF_vars(POST)
    /\ WF_vars(POSTSeq)
    /\ WF_vars(processInParallel)
    /\ WF_vars(resumeSeq)
    /\ \A k \in 0..(MaxDomains - 1) :
         /\ WF_vars(k \in Positions
                    /\ (fetchResponds(k) \/ fetchRejects(k) \/ timeoutFires(k)))
         /\ WF_vars(k \in Positions
                    /\ (firecrawlResolves(k) \/ firecrawlRejects(k)))

\* C4 (as stated): every request eventually has one result event per domain
\* followed by batch_complete in a closed stream.
C4_AlwaysCompletes ==
    <>(/\ streamState = "closed"
       /\ Cardinality(ResultSlots) = N
       /\ stream[Len(stream)].type = "batch_complete")


-----------------------------------------------------------------------------
\* Outcomes of single calls

\* The call of position k was ended by its own timer
TimedOut(k) == Settled(k) /\ net[k] = [kind |-> "reject", error |-> AbortError]

\* The error string says that the call ran out of time
TimeoutClassified(error) ==
    \/ includes(toLowerCase(error), <<"t","i","m","e","o","u","t">>)
    \/ includes(toLowerCase(error), <<"t","i","m","e","d"," ","o","u","t">>)

\* C11: with direct fetch, in the windowed and in the sequential route, a
\* call whose timer fires before fetch() has returned is fulfilled with a
\* status=error outcome whose error string is classified as a timeout, and
\* every other settled call of the request keeps the outcome of its own
\* network event.
C11_TimeoutClassified ==
    \A k \in Positions : (~firecrawl /\ TimedOut(k)) =>
        /\ call[k].state = "fulfilled"
        /\ call[k].value.status = "error"
        /\ TimeoutClassified(call[k].value.error)
        /\ \A j \in Positions \ {k} : Settled(j) => call[j] = settle(j, net[j])

\* C12: a call whose fetch() was answered with a status outside 200..299 is
\* fulfilled with a status=error outcome whose error string contains the
\* decimal digits of the status and whose two portal lists are empty, and no
\* call reads (and so classifies) the body of such a response.
C12_StatusError ==
    \A k \in Positions :
        /\ At(k, "text") => net[k].kind = "response" /\ net[k].status \in 200..299
        /\ (net[k].kind = "response" /\ net[k].status \notin 200..299) =>
             /\ call[k].state = "fulfilled"
             /\ call[k].value.status = "error"
             /\ includes(call[k].value.error, ToDecimal(net[k].status))
             /\ call[k].value.paymentPortals = <<>>
             /\ call[k].value.psaPortals = <<>>

C12_Witness ==
    /\ pc = "done"
    /\ route = "sequential"
    /\ net[0] = [kind |-> "response", status |-> 404]
    /\ includes(stream[2].error, <<"4","0","4">>)
    /\ \E k \in Positions : net[k] = [kind |-> "response", status |-> 500]

\* The failure is a connection reset by the peer
ConnectionReset(error) == error.isError /\ includes(error.message, <<"E","C","O","N","N","R","E","S","E","T">>)

BucketLabels == { <<"T","i","m","e","o","u","t">>, <<"D","N","S"," ","e","r","r","o","r">>, <<"C","o","n","n","e","c","t","i","o","n"," ","r","e","f","u","s","e","d">>, <<"S","S","L"," ","e","r","r","o","r">> }

\* The error string is the label of the bucket the failure belongs to; the
\* unknown bucket carries the truncated message
Classified(error, label) ==
    IF ~error.isError THEN label = <<"U","n","k","n","o","w","n"," ","e","r","r","o","r">>
    ELSE IF error.name = "AbortError" THEN label = <<"T","i","m","e","o","u","t">>
    ELSE IF includes(error.message, <<"E","N","O","T","F","O","U","N","D">>) THEN label = <<"D","N","S"," ","e","r","r","o","r">>
    ELSE IF includes(error.message, <<"E","C","O","N","N","R","E","F","U","S","E","D">>) THEN label = <<"C","o","n","n","e","c","t","i","o","n"," ","r","e","f","u","s","e","d">>
    ELSE IF includes(error.message, <<"C","E","R","T">>) \/ includes(error.message, <<"S","S","L">>)
         THEN label = <<"S","S","L"," ","e","r","r","o","r">>
    ELSE IF ConnectionReset(error)
         THEN /\ label \notin BucketLabels \cup { <<"U","n","k","n","o","w","n"," ","e","r","r","o","r">> }
              /\ label # slice(error.message, 50)
    ELSE label = slice(error.message, 50)

\* C13: with direct fetch, the error string of a call ended by a transport
\* failure is the label of the one bucket the failure belongs to (timeout,
\* DNS, connection refused, TLS/certificate, connection reset, unknown); a
\* connection reset carries a label of its own, neither the label of another
\* bucket nor the truncated message of the unknown bucket.
C13_Taxonomy ==
    \A k \in Positions :
        (~firecrawl /\ Settled(k) /\ net[k].kind = "reject") =>
            /\ call[k].state = "fulfilled"
            /\ call[k].value.status = "error"
            /\ Classified(net[k].error, call[k].value.error)

\* C14: in both routes and with either strategy, the error string of every
\* status=error outcome, and so of every result event, is at most 50
\* characters long.
C14_ErrorTruncated ==
    /\ \A k \in Positions :
         (call[k].state = "fulfilled" /\ call[k].value.status = "error") =>
             Len(call[k].value.error) <= 50
    /\ \A s \in ResultSlots :
         stream[s].status = "error" => Len(stream[s].error) <= 50

-----------------------------------------------------------------------------
\* Intake

\* Shapes of a body the route must refuse
EmptyList(b) == b.t = "object" /\ b.domains.t = "array" /\ Len(b.domains.items) = 0

TooLong(b) == b.t = "object" /\ b.domains.t = "array" /\ Len(b.domains.items) > 30

NotStringArray(b) ==
    \/ b.t # "object"
    \/ b.domains.t # "array"
    \/ \E k \in 1..Len(b.domains.items) : b.domains.items[k].t # "string"

\* C15: a request whose domains list is empty, longer than 30 entries or
\* not an array of strings never gets past the parse: once the body is
\* parsed the response is the non-stream 400 answer, no per-domain call is
\* ever started and the stream never holds an event.
C15_InvalidRejected ==
    (EmptyList(body) \/ TooLong(body) \/ NotStringArray(body)) =>
        /\ pc \in {"received", "rejected"}
        /\ pc = "received" => ENABLED parseRequest
        /\ Response.sent => (Response.status = 400 /\ ~Response.streaming)
        /\ stream = <<>>
        /\ streamState = "readable"
        /\ \A k \in DOMAIN call : call[k] = Idle

C15_Witness ==
    /\ pc = "rejected"
    /\ TooLong(body)
    /\ Response.status = 400

-----------------------------------------------------------------------------
\* Classification of page content

NoDuplicates(arr) == \A a, b \in 1..Len(arr) : a # b => arr[a] # arr[b]

\* The page body that call k classified
ClassifiedContent(k) ==
    IF net[k].kind = "text" THEN net[k].html
    ELSE IF net[k].result.hasHtml THEN net[k].result.html ELSE <<>>

HasClassified(k) == call[k].state = "fulfilled" /\ net[k].kind \in {"text", "scraped"}

\* The vendor's patterns that occur in the text, whatever the letter case
MatchingPatterns(config, text) ==
    { j \in 1..Len(config.patterns) :
        includes(toLowerCase(text), toLowerCase(config.patterns[j])) }

\* C16: no vendor name occurs twice in the paymentPortals or in the
\* psaPortals of an outcome or of a result event, also when several patterns
\* of one vendor match the content.
C16_NoDuplicateVendors ==
    /\ \A k \in Positions : call[k].state = "fulfilled" =>
         /\ NoDuplicates(call[k].value.paymentPortals)
         /\ NoDuplicates(call[k].value.psaPortals)
    /\ \A s \in ResultSlots :
         /\ NoDuplicates(stream[s].paymentPortals)
         /\ NoDuplicates(stream[s].psaPortals)

C16_Witness ==
    /\ pc = "done"
    /\ route = "parallel"
    /\ HasClassified(0)
    /\ Cardinality(MatchingPatterns(PAYMENT_PATTERNS[1], ClassifiedContent(0))) >= 3
    /\ stream[2].paymentPortals = <<"Stripe">>

\* Position of a vendor name in a registry
RegistryIndex(registry, name) ==
    CHOOSE v \in 1..Len(registry) : registry[v].name = name

\* The names are in the order in which the registry declares them
InRegistryOrder(arr, registry) ==
    \A a, b \in 1..Len(arr) :
        a < b => RegistryIndex(registry, arr[a]) < RegistryIndex(registry, arr[b])

PaymentRegistry == IF route = "sequential" THEN PAYMENT_PATTERNS_SEQ ELSE PAYMENT_PATTERNS

PsaRegistry == IF route = "sequential" THEN PSA_PATTERNS_SEQ ELSE PSA_PATTERNS

NoOtherVendor(content, name) ==
    \A registry \in {PaymentRegistry, PsaRegistry} :
        \A v \in 1..Len(registry) :
            registry[v].name # name => MatchingPatterns(registry[v], content) = {}

\* C18: in both routes, a call that classified content containing
\* "js.stripe.com" (in any letter case) and no pattern of another vendor has
\* paymentPortals = ["Stripe"] and psaPortals = [].
C18_StripeOnly ==
    \A k \in Positions :
        (/\ HasClassified(k)
         /\ includes(toLowerCase(ClassifiedContent(k)), <<"j","s",".","s","t","r","i","p","e",".","c","o","m">>)
         /\ NoOtherVendor(ClassifiedContent(k), "Stripe")) =>
            /\ call[k].value.paymentPortals = <<"Stripe">>
            /\ call[k].value.psaPortals = <<>>

C18_Witness ==
    /\ pc = "done"
    /\ N = 1
    /\ route = "sequential"
    /\ net[0] = [kind |-> "text", html |-> <<"s","r","c","=","j","s",".","s","t","r","i","p","e",".","c","o","m","/","v","3">>]
    /\ NoOtherVendor(ClassifiedContent(0), "Stripe")
    /\ stream[2].paymentPortals = <<"Stripe">>
    /\ stream[2].psaPortals = <<>>

-----------------------------------------------------------------------------
\* URL resolution

HasScheme(domain) == startsWith(domain, <<"h","t","t","p",":","/","/">>) \/ startsWith(domain, <<"h","t","t","p","s",":","/","/">>)

\* C19: the URL a call requests is "https://" followed by the domain string
\* when the string has no scheme, and the domain string itself when it
\* starts with http:// or https://; so for every bare host, also one whose
\* name begins with the letters "http".
C19_UrlResolved ==
    \A k \in Positions :
        (At(k, "fetch") \/ At(k, "scrape")) =>
            call[k].url = IF HasScheme(domains[k + 1]) THEN domains[k + 1]
                          ELSE <<"h","t","t","p","s",":","/","/">> \o domains[k + 1]

-----------------------------------------------------------------------------
\* Announcement of the strategy

\* C20: the stream of a request never holds more than one info event, and an
\* info event is the first event of the stream, ahead of every result event.
C20_InfoOnceFirst ==
    /\ Cardinality(TypeSlots("info")) <= 1
    /\ \A s \in TypeSlots("info") :
         /\ s = 1
         /\ \A r \in ResultSlots : s < r

C20_Witness ==
    /\ pc = "done"
    /\ N > CONCURRENT_LIMIT
    /\ stream[1] = [type |-> "info", scraper |-> "firecrawl"]
    /\ Cardinality(ResultSlots) = N
    /\ Cardinality(TypeSlots("info")) = 1

-----------------------------------------------------------------------------
\* The sequential route

\* The event the sequential route emits in slot s of the stream of a request
\* of n domains: processing(0), result(0), ..., processing(n-1),
\* result(n-1), batch_complete
IsSeqEvent(ev, s) ==
    IF s = 2 * N + 1 THEN ev = [type |-> "batch_complete"]
    ELSE IF s % 2 = 1
    THEN ev = [type |-> "processing", domain |-> domains[(s + 1) \div 2],
               index |-> (s - 1) \div 2]
    ELSE /\ ev.type = "result"
         /\ ev.index = (s \div 2) - 1
         /\ ev.domain = domains[s \div 2]

\* C21: in the sequential route the stream is at every moment a prefix of
\* processing(0), result(0), ..., processing(n-1), result(n-1),
\* batch_complete, it is the whole sequence once start() has returned, and
\* the call of domain k+1 is not started before result(k) is in the stream.
C21_SequentialInterleaving ==
    route = "sequential" =>
        /\ Len(stream) <= 2 * N + 1
        /\ \A s \in 1..Len(stream) : IsSeqEvent(stream[s], s)
        /\ pc = "done" => Len(stream) = 2 * N + 1
        /\ \A k \in Positions : (k > 0 /\ Started(k)) => Emitted(k - 1)
        /\ \A k \in Positions : Started(k) => Len(stream) >= 2 * k + 1

C21_Witness ==
    /\ route = "sequential"
    /\ pc = "done"
    /\ N = 3
    /\ Len(stream) = 7
    /\ stream[5].type = "processing" /\ stream[5].index = 2
    /\ stream[6].type = "result" /\ stream[6].index = 2
    /\ stream[7].type = "batch_complete"

-----------------------------------------------------------------------------
\* Strategy

\* Call k went to the render provider
UsedFirecrawl(k) ==
    \/ At(k, "scrape")
    \/ /\ Settled(k)
       /\ \/ net[k].kind = "scraped"
          \/ net[k].kind = "reject" /\ net[k].error \in FirecrawlErrors

\* C22: in the windowed route every call of a request goes to the same
\* strategy, the render provider exactly when its credential is configured;
\* the stream starts with the info event as soon as start() has run, and
\* that event names the strategy the calls use.
C22_OneStrategy ==
    route = "parallel" =>
        /\ \A j, k \in Positions :
             (Started(j) /\ Started(k)) => (UsedFirecrawl(j) <=> UsedFirecrawl(k))
        /\ \A k \in Positions : Started(k) => (UsedFirecrawl(k) <=> firecrawl)
        /\ pc # "request" => TypeSlots("info") # {}
        /\ \A s \in TypeSlots("info") :
             /\ stream[s].scraper \in {"firecrawl", "fetch"}
             /\ stream[s].scraper = "firecrawl" <=> firecrawl
             /\ \A k \in Positions :
                  Started(k) => (stream[s].scraper = "firecrawl" <=> UsedFirecrawl(k))

C22_Witness ==
    /\ route = "parallel"
    /\ firecrawl
    /\ pc = "done"
    /\ N > CONCURRENT_LIMIT
    /\ stream[1].scraper = "firecrawl"
    /\ \A k \in Positions : UsedFirecrawl(k)
    /\ \E j, k \in Positions : net[j].kind = "scraped" /\ net[k].kind = "reject"

-----------------------------------------------------------------------------
\* Shape of a result

\* status is done or error, the error field is there exactly when status is
\* error, and an error has no portals
WellFormedResult(r) ==
    /\ r.status \in {"done", "error"}
    /\ ("error" \in DOMAIN r) <=> (r.status = "error")
    /\ r.status = "error" => (r.paymentPortals = <<>> /\ r.psaPortals = <<>>)

\* C23: every outcome of a call and every result event has status done or
\* error, carries an error field if and only if its status is error, and has
\* empty paymentPortals and psaPortals whenever its status is error.
C23_ResultShape ==
    /\ \A k \in Positions : call[k].state = "fulfilled" => WellFormedResult(call[k].value)
    /\ \A s \in ResultSlots : WellFormedResult(stream[s])

C23_Witness ==
    /\ pc = "done"
    /\ N = 2
    /\ \E s, t \in ResultSlots :
         /\ stream[s].status = "done" /\ stream[s].paymentPortals # <<>>
         /\ "error" \notin DOMAIN stream[s]
         /\ stream[t].status = "error" /\ Len(stream[t].error) > 0

-----------------------------------------------------------------------------
\* Timers of the direct fetch

\* C26: the timeout of the direct fetch covers the body read: while
\* response.text() of a call is pending, the call's timer is still set and
\* can cancel it.
C26_TimerCoversBody ==
    \A k \in Positions : At(k, "text") => TimerArmed(k)

\* The timer of a pending fetch() is set
TimerOfPendingFetch ==
    \A k \in Positions : At(k, "fetch") => TimerArmed(k)

\* C27: each call has its own timer: a timer that fires changes no other
\* call and puts nothing on the stream, and when its own call is no longer
\* waiting for fetch() it changes nothing of that call either; a settled
\* call is never settled again.
C27_OwnTimer ==
    /\ []TimerOfPendingFetch
    /\ [][ /\ \A k \in Positions :
                timeoutFires(k) =>
                    /\ \A j \in Positions \ {k} : call'[j] = call[j] /\ net'[j] = net[j]
                    /\ stream' = stream /\ streamState' = streamState /\ pc' = pc
                    /\ ~At(k, "fetch") => (call'[k] = call[k] /\ net'[k] = net[k])
           /\ \A k \in Positions :
                Settled(k) => (call'[k] = call[k] /\ net'[k] = net[k]) ]_vars

\* A call ended by a DNS failure whose timer, left set by the catch block,
\* has fired since; the other call of the request is done
C27_Witness ==
    /\ timers.followed
    /\ route = "parallel"
    /\ pc = "done"
    /\ N = 2
    /\ net[0] = [kind |-> "reject", error |-> DnsFailure]
    /\ 0 \notin timers.armed
    /\ call[0].value.status = "error"
    /\ call[1].value.status = "done"

-----------------------------------------------------------------------------
\* The two forms of the classifier

Registries == { PAYMENT_PATTERNS, PSA_PATTERNS, PAYMENT_PATTERNS_SEQ, PSA_PATTERNS_SEQ }

\* For each page body the model draws: over every registry, the loop of
\* route.ts and the patterns.some form return the same list
SameLists ==
    [c \in AllContents |->
        \A registry \in Registries :
            matchVendors(registry, toLowerCase(c), 1, <<>>) = someVendors(registry, c, 1, <<>>)]

\* C28: over the same registry and the same content, the loop of route.ts
\* detectPortals (stop at the vendor's first matching pattern, push the name
\* once) and the patterns.some form of the sequential variant return the same
\* lists, for every page body a call has classified.
C28_SameClassification ==
    \A k \in Positions : HasClassified(k) => SameLists[ClassifiedContent(k)]

\* A call classified a page that matches vendors only by a later pattern
\* of their lists
C28_Witness ==
    \E k \in Positions :
        /\ HasClassified(k)
        /\ ClassifiedContent(k) = <<"d","a","t","t","o"," ","r","m","m"," ","s","q","u","a","r","e","u","p",".","c","o","m">>
        /\ route = "parallel"
        /\ call[k].value.paymentPortals = <<"Square">>
        /\ call[k].value.psaPortals = <<"Datto">>

-----------------------------------------------------------------------------
\* The client page

\* A scan is running: startScraping has not returned
Scanning == run.pc # "idle"

\* The batch in progress, its length, and the result event the route sends
\* for index k of it
CurrentBatch == run.batches[run.i + 1]
OutcomeOf(k) == ResultEvent(CurrentBatch, run.startIndex, k)

\* processBatch has consumed every byte of the answer
Consumed == run.pc = "read" /\ run.wire = <<>>

\* The row shows the outcome of the result event: its domain, status, portal
\* lists, and its error when it has one
HoldsOutcome(row, ev) ==
    /\ row.domain = ev.domain
    /\ row.status = ev.status
    /\ row.paymentPortals = ev.paymentPortals
    /\ row.psaPortals = ev.psaPortals
    /\ ("error" \in DOMAIN row) <=> ("error" \in DOMAIN ev)
    /\ "error" \in DOMAIN ev => row.error = ev.error

\* C24: once processBatch has consumed all events of a batch with start
\* offset s, row s+k of the table holds the outcome whose index is k, for
\* every k of the batch, in whatever order the result events arrived.
C24_ReconciledByIndex ==
    Consumed =>
        \A k \in 0..(Len(CurrentBatch) - 1) :
            /\ run.startIndex + k + 1 \in 1..Len(page.results)
            /\ HoldsOutcome(page.results[run.startIndex + k + 1], OutcomeOf(k))

\* The domains of a request body
DomainsOf(b) == parsedDomains(b)

RECURSIVE Flatten(_)
Flatten(lists) == IF lists = <<>> THEN <<>> ELSE Head(lists) \o Flatten(Tail(lists))

\* For every length a loaded list can have, the loop of startScraping cuts
\* the list into ceil(n / 30) slices of 1 to 30 that follow each other
SlicesOfEveryLength ==
    \A n \in 1..MaximumDomains :
        LET list    == [k \in 1..n |-> k]
            batches == sliceBatches(list, 0, <<>>)
        IN  /\ Len(batches) = ceilBatches(n)
            /\ \A b \in 1..Len(batches) :
                 /\ Len(batches[b]) \in 1..BATCH_SIZE
                 /\ batches[b] = SubSeq(list, BATCH_SIZE * (b - 1) + 1,
                                        Min(BATCH_SIZE * b, n))

\* C25: every request of a scan carries 1 to 30 domains and passes the
\* route's schema; request b (from 0) carries the domains 30*b+1..30*b+30 of
\* the loaded list, in order, with start offset 30*b; when the last batch has
\* been sent the requests together are the loaded list; and the loop cuts a
\* list of any length from 1 to 300 this way.
C25_RequestsSizeBounded ==
    /\ SlicesOfEveryLength
    /\ Scanning =>
         /\ Len(run.domains) \in 1..MaximumDomains
         /\ \A r \in 1..Len(run.sent) :
              LET sent == DomainsOf(run.sent[r].body)
              IN  /\ requestSchema(run.sent[r].body)
                  /\ Len(sent) \in 1..BATCH_SIZE
                  /\ run.sent[r].startIndex = BATCH_SIZE * (r - 1)
                  /\ sent = SubSeq(run.domains, BATCH_SIZE * (r - 1) + 1,
                                   Min(BATCH_SIZE * r, Len(run.domains)))
         /\ run.i + 1 = Len(run.batches) =>
              Flatten([r \in 1..Len(run.sent) |-> DomainsOf(run.sent[r].body)]) = run.domains

\* The second and last request of a scan of 31 domains is sent: it carries
\* the one domain left, with start offset 30
C25_Witness ==
    /\ Scanning
    /\ Len(run.domains) = 31
    /\ Len(run.sent) = 2
    /\ Len(DomainsOf(run.sent[1].body)) = 30
    /\ DomainsOf(run.sent[2].body) = <<run.domains[31]>>
    /\ run.sent[2].startIndex = 30

\* s is a prefix of t
IsPrefix(s, t) == Len(s) <= Len(t) /\ s = SubSeq(t, 1, Len(s))

\* C29: however the bytes of the answer are cut into chunks, processBatch
\* handles the events the route sent, in the order sent, each once: what it
\* has handled is always a prefix of the events sent, it is all of them when
\* the bytes are consumed, nothing is left in the buffer then, and JSON.parse
\* never sees a cut event.
C29_ChunkingIndependent ==
    /\ run.pc = "read" => IsPrefix(run.handled, run.events)
    /\ Consumed => (run.handled = run.events /\ run.buffer = <<>>)
    /\ page.error # Message(<<"U","n","e","x","p","e","c","t","e","d"," ","e","n","d"," ","o","f"," ","J","S","O","N"," ","i","n","p","u","t">>)

\* A chunk ended between the two newlines of a separator, after an event
\* that ended inside an earlier chunk
C29_Witness ==
    /\ run.pc = "read"
    /\ Len(run.handled) >= 1
    /\ run.buffer # <<>>
    /\ run.buffer[Len(run.buffer)] = Ch("\n")
    /\ run.wire # <<>>

\* C30: the page works on one batch at a time, in order: during a scan the
\* requests sent are those of the batches 0..i, currentBatch is i + 1, and
\* currentBatch stays between 0 and totalBatches.
C30_OneBatchAtATime ==
    Scanning =>
        /\ Len(run.sent) = run.i + 1
        /\ page.currentBatch = run.i + 1
        /\ page.currentBatch >= 0
        /\ page.currentBatch <= page.totalBatches

\* The same, with the bound taken from the list that is scanned
OneBatchAtATimeOfScannedList ==
    Scanning =>
        /\ page.isProcessing
        /\ Len(run.sent) = run.i + 1
        /\ page.currentBatch = run.i + 1
        /\ page.currentBatch \in 1..ceilBatches(Len(run.domains))

\* A step of the read loop of processBatch: a chunk is taken from the answer
ReadStep == run.pc = "read" /\ run'.wire # run.wire

\* The events that the step has handled
NewlyHandled == SubSeq(run'.handled, Len(run.handled) + 1, Len(run'.handled))

\* The events of the step that are aimed at row j of the table (rows are
\* counted from 1, indices from 0)
AimedAt(j) ==
    SelectSeq(NewlyHandled,
              LAMBDA ev : /\ ev.type \in {"result", "processing"}
                          /\ run.startIndex + ev.index = j - 1)

\* The rows of the batch in progress
RowsOfCurrentBatch == (run.startIndex + 1)..(run.startIndex + Len(CurrentBatch))

\* C31: a step of the read loop leaves the length of the table as it is,
\* leaves every row unchanged at which no event of the step is aimed, so the
\* whole table when the events are aimed outside of it, puts the outcome of
\* the result event with index k into row s+k, and changes rows of the batch
\* in progress only.
C31_OwnRowOnly ==
    [][ReadStep =>
          /\ Len(page'.results) = Len(page.results)
          /\ \A j \in 1..Len(page.results) :
               LET aimed == AimedAt(j)
               IN  /\ aimed = <<>> => page'.results[j] = page.results[j]
                   /\ aimed # <<>> =>
                        LET last == aimed[Len(aimed)]
                        IN  IF last.type = "result"
                            THEN HoldsOutcome(page'.results[j], last)
                            ELSE /\ page'.results[j].status = "processing"
                                 /\ page'.results[j].domain = page.results[j].domain
                   /\ page'.results[j] # page.results[j] => j \in RowsOfCurrentBatch
          /\ (\A e \in 1..Len(NewlyHandled) :
                NewlyHandled[e].type \in {"result", "processing"} =>
                    run.startIndex + NewlyHandled[e].index >= Len(page.results))
             => page'.results = page.results]_vars

\* The result of the second batch of a list of 31 domains is in row 30, and
\* the rows of the first batch hold what its results left there
C31_Witness ==
    /\ run.pc = "read"
    /\ run.startIndex = BATCH_SIZE
    /\ Len(page.results) = 31
    /\ \E j \in 1..Len(run.handled) : run.handled[j].type = "result"
    /\ page.results[31].status \in {"done", "error"}
    /\ \A j \in 1..BATCH_SIZE : page.results[j].status \in {"done", "error"}

\* A result was handled whose row is not in the table: a shorter list was
\* loaded while the scan was running
ResultOutsideTable ==
    /\ run.pc = "read"
    /\ \E j \in 1..Len(run.handled) :
         /\ run.handled[j].type = "result"
         /\ run.startIndex + run.handled[j].index >= Len(page.results)

\* The request of a batch fails: startScraping leaves its loop from the
\* `await fetch(...)` of processBatch
RequestFails == run.pc = "fetch" /\ run'.pc = "idle"

\* A request is sent
RequestSent == run'.pc = "fetch" /\ (run.pc # "fetch" \/ run'.sent # run.sent)

\* The messages of a failed request: the response is not ok, the response
\* has no body, fetch has rejected
RequestFailures ==
    { Message(<<"F","a","i","l","e","d"," ","t","o"," ","p","r","o","c","e","s","s"," ","b","a","t","c","h">>), Message(<<"N","o"," ","r","e","s","p","o","n","s","e"," ","b","o","d","y">>),
      Message(<<"F","a","i","l","e","d"," ","t","o"," ","f","e","t","c","h">>) }

\* C32: when the request of a batch fails, the loop of startScraping is left
\* in that step: the error message is recorded, isProcessing is false, the
\* table is what it was (filled rows keep their outcomes, the rows of the
\* failed and later batches their status); a request is sent only by a click
\* on Start when no scan is running or when the stream of the batch before
\* has ended, so none follows the failure; and isProcessing is false
\* whenever startScraping is not running.
C32_FailureStopsScan ==
    /\ [][/\ RequestFails =>
               /\ page'.error \in RequestFailures
               /\ ~page'.isProcessing
               /\ page'.results = page.results
               /\ run'.batches = <<>> /\ run'.sent = <<>>
          /\ RequestSent =>
               \/ /\ ~Scanning /\ ~page.isProcessing
                  /\ run'.i = 0 /\ Len(run'.sent) = 1
               \/ /\ Consumed
                  /\ run'.i = run.i + 1 /\ Len(run'.sent) = Len(run.sent) + 1
          /\ run.pc = "fetch" => run'.pc \in {"fetch", "read", "idle"}]_vars
    /\ [](~Scanning => ~page.isProcessing)

\* The second request of a scan of 31 domains was answered with a status
\* that is not ok: the scan has ended with the message, the 30 rows of the
\* first batch are filled and the row of the second is pending
C32_Witness ==
    /\ ~Scanning
    /\ ~page.isProcessing
    /\ page.error = Message(<<"F","a","i","l","e","d"," ","t","o"," ","p","r","o","c","e","s","s"," ","b","a","t","c","h">>)
    /\ Len(page.results) = 31
    /\ \A j \in 1..BATCH_SIZE : page.results[j].status \in {"done", "error"}
    /\ page.results[31].status = "pending"

\* The row counts as completed in the progress bar (stats.done + stats.errors)
Completed(row) == row.status \in {"done", "error"}

\* Number of completed rows of a table
CompletedRows(results) ==
    Cardinality({ j \in 1..Len(results) : Completed(results[j]) })

\* The stream of the last batch has ended and startScraping returns
ScanEndsNormally ==
    /\ Consumed
    /\ run.i + 1 = Len(run.batches)
    /\ ~Scanning'
    /\ page'.error = page.error

\* C33: in a step taken during a scan a completed row stays completed, so
\* the number of completed rows does not decrease; and when the stream of
\* the last batch has ended no row is pending or processing.
C33_ProgressMonotonic ==
    [][/\ Scanning =>
            /\ \A j \in 1..Len(page.results) :
                 Completed(page.results[j]) =>
                     /\ j <= Len(page'.results)
                     /\ Completed(page'.results[j])
            /\ CompletedRows(page'.results) >= CompletedRows(page.results)
       /\ ScanEndsNormally =>
            \A j \in 1..Len(page'.results) : Completed(page'.results[j])]_vars

\* The same for the steps of startScraping and processBatch alone: the steps
\* in which no file finishes loading
ProgressMonotonicOfReadLoop ==
    [][(Scanning /\ run'.loading = run.loading) =>
            /\ \A j \in 1..Len(page.results) :
                 Completed(page.results[j]) =>
                     /\ j <= Len(page'.results)
                     /\ Completed(page'.results[j])
            /\ CompletedRows(page'.results) >= CompletedRows(page.results)]_vars
====
